---- MODULE Spec2Model ----
(***************************************************************************)
(* Scheduling and state-transition workflow of the OBS stream launcher:    *)
(* StreamScheduler.ScheduleStream / GoLive / EndStream driving a broadcast *)
(* on the remote platform, and the schedule / start / end command flows    *)
(* that persist the broadcast identifier and register the two OS tasks.    *)
(***************************************************************************)
EXTENDS Integers, Sequences, FiniteSets, TLC

(* ------------------------------ bounds --------------------------------- *)
\* number of broadcasts the platform hands out identifiers for
MaxBroadcasts == 2
\* last instant of the modelled wall clock
MaxTime == 3
\* longest duration WaitAndGoLive is called with, in quarters of a minute
MaxWait == 3

(* ----------------------------- constants ------------------------------- *)
youtubeStreamTitle == "Marshall Weather Station - Stream"
OtherStreamTitle == "Some other stream"
StartTaskName == "StartYouTubeStream"
EndTaskName == "EndYouTubeStream"

\* the period of the countdown ticker: 30 seconds, in quarters of a minute
TickPeriod == 2
\* how long the clock of a wait is followed: past the longest deadline
MaxElapsed == MaxWait + 1

BroadcastIds == 1..MaxBroadcasts
\* the empty identifier ""
NoId == 0
States == {"Unscheduled", "Created", "Bound", "Testing", "Live", "Ended"}

\* results of the sun-times lookup and the offsets tried; one unit of model
\* time stands for 30 minutes of local time
SunTimesSet == {[Sunrise |-> 1, Sunset |-> 2]}
Offsets == {-1, 0, 1}
TimeFlags == {"SUNRISE", "SUNSET", "EXPLICIT"}

\* a nil *youtube.LiveStream, and the request object built before the insert
NilStream == [id |-> NoId, title |-> "", key |-> <<>>]
newStream == [id |-> NoId, title |-> youtubeStreamTitle, key |-> <<>>]

(* ------------------------- the handoff file ---------------------------- *)
\* the characters a file can hold besides identifiers: a blank, a line end
Space == -1
Newline == -2
IsSpace(c) == c \in {Space, Newline}

\* broadcast_id.txt: missing, or present with its content
NoFile == [exists |-> FALSE, data |-> <<>>]
File(data) == [exists |-> TRUE, data |-> data]

\* []byte(broadcast.Id): the characters of an identifier
Bytes(id) == IF id = NoId THEN <<>> ELSE <<id>>

\* an identifier the platform has never handed out
UnknownId == MaxBroadcasts + 1

\* the identifier a string is: "" is NoId, one character is that
\* identifier, anything longer is no identifier of the platform
IdOfString(str) ==
  IF str = <<>> THEN NoId
  ELSE IF Len(str) = 1 THEN str[1] ELSE UnknownId

\* strings.TrimSpace: drop the white space at both ends
RECURSIVE TrimLeft(_)
TrimLeft(str) ==
  IF str # <<>> /\ IsSpace(Head(str)) THEN TrimLeft(Tail(str)) ELSE str

RECURSIVE TrimRight(_)
TrimRight(str) ==
  IF str # <<>> /\ IsSpace(str[Len(str)])
  THEN TrimRight(SubSeq(str, 1, Len(str) - 1))
  ELSE str

\* variant: the content is used as it is read
TrimSpace_Raw(str) == str

TrimSpace(str) == TrimRight(TrimLeft(str))

\* how os.WriteFile can end: written; not opened; opened (and truncated)
\* but not written
WriteOutcomes == {"ok", "openFailed", "writeFailed"}

\* variant: the identifier is added to the end of the file
WriteFile_Append(file, bytes, outcome) ==
  CASE outcome = "ok" -> File(file.data \o bytes)
    [] outcome = "openFailed" -> file
    [] outcome = "writeFailed" -> File(<<>>)

\* os.WriteFile(name, bytes, 0644): create or truncate, then write
WriteFile(file, bytes, outcome) ==
  CASE outcome = "ok" -> File(bytes)
    [] outcome = "openFailed" -> file
    [] outcome = "writeFailed" -> File(<<>>)

\* os.ReadFile(name): the content, or an error
ReadFile(file, ok) ==
  IF file.exists /\ ok THEN [err |-> FALSE, data |-> file.data]
  ELSE [err |-> TRUE, data |-> <<>>]

\* what the file may hold before the first run: nothing, an empty line, or
\* an identifier put there by hand, blanks around it
InitHandoff == {NoFile, File(<<Newline>>), File(<<Space, 1, Newline>>)}

\* the operating systems the launcher is built for
GOOS == {"linux", "windows"}

VARIABLES
  \* remote platform
  bstate,     \* lifecycle state of every broadcast identifier
  bound,      \* endpoint a broadcast is bound to (NoId: none)
  endpoints,  \* the ingest endpoints, in listing order
  \* local machine
  handoff,    \* the file broadcast_id.txt
  crontab,    \* the task registry: crontab lines, or schtasks tasks
  now,        \* wall clock, in units of model time
  goos,       \* runtime.GOOS of the machine
  \* schedule flow (cmdStreamSchedule with ScheduleStream inlined)
  spc, sStart, sEnd, sBroadcast, sStream, sCalls, sErr, sRet, sExit,
  sRegs,      \* the task registrations the run has tried, in order
  \* start flow (cmdStreamStart with GoLive inlined)
  gpc, gId, gOrigin, gPre, gTestErr, gLiveErr, gResult,
  gFlag, gRead, gObs, gPaused, gCalls, gExit,
  gSlept,     \* seconds GoLive has slept between its two calls
  \* end flow (cmdStreamEnd with EndStream inlined): record of the last run
  epc, eId, eOrigin, eResult, eFlag, eRead, eCalls, eExit,
  \* broadcasts for which a start task's GoLive has issued the live call
  taskLive,
  \* identifier of the last schedule run whose handoff write succeeded
  lastSaved,
  \* attached wait (WaitAndGoLive)
  wpc, wId, wDuration, wElapsed, wDone, wTick, wCalls, wVia, wCalledAt,
  wReported,
  \* time resolution
  rLocal,     \* time.Local of the machine
  rArgs,      \* the flags of the schedule run
  rSun,       \* the sun times the lookup gave the schedule run
  rCalls,     \* the lookups the schedule run has made, in order
  rErr,       \* the error that ended the resolution, if any
  rOut,       \* the run of the sunrise or sunset subcommand
  \* wind direction conversion (degrees_to_cardinal)
  cDeg,       \* the degrees handed to the function
  cOut,       \* what the function returned for them
  \* weather script (weather_data.lua)
  wxClock,    \* local wall clock of the machine, in seconds
  wxLast,     \* last_update
  wxInterval, \* update_interval
  wxWindName, \* wind_source_name
  wxDateName, \* datetime_source_name
  wxWind,     \* text of the wind text source
  wxDate,     \* text of the date/time text source
  wxTimer,    \* clock readings of the last two fetches check_update made
  \* the controller as part_000 has it and as README.md has it
  vIn,        \* the method called, its arguments and the platform outcomes
  vNew,       \* what the method of part_000 did and returned
  vOld,       \* what the method of README.md did and returned
  \* self-update (release.Updater)
  uTag,       \* Updater.CurrentTagName
  uFiles,     \* the executable, its .new and its .old neighbour
  uOps,       \* file and network operations of the last Apply, in order
  uRet,       \* what the last Apply returned
  uLast       \* the release handed to the last Apply

platformVars == <<bstate, bound, endpoints>>
osVars == <<handoff, crontab, now, goos>>
schedVars == <<spc, sStart, sEnd, sBroadcast, sStream, sCalls, sErr, sRet,
              sExit, sRegs>>
startVars == <<gpc, gId, gOrigin, gPre, gTestErr, gLiveErr, gResult,
              gFlag, gRead, gObs, gPaused, gCalls, gExit, gSlept>>
endVars == <<epc, eId, eOrigin, eResult, eFlag, eRead, eCalls, eExit>>
histVars == <<taskLive, lastSaved>>
waitVars == <<wpc, wId, wDuration, wElapsed, wDone, wTick, wCalls, wVia,
             wCalledAt, wReported>>
resolveVars == <<rLocal, rArgs, rSun, rCalls, rErr, rOut>>
cardinalVars == <<cDeg, cOut>>
weatherVars == <<wxClock, wxLast, wxInterval, wxWindName, wxDateName,
                wxWind, wxDate, wxTimer>>
versionVars == <<vIn, vNew, vOld>>
updaterVars == <<uTag, uFiles, uOps, uRet, uLast>>
toolVars == <<cardinalVars, weatherVars, versionVars, updaterVars>>
vars == <<platformVars, osVars, schedVars, startVars, endVars, histVars,
          waitVars, resolveVars, toolVars>>

(* ------------------------- the remote platform ------------------------- *)
Rank(s) ==
  CASE s = "Unscheduled" -> 0
    [] s = "Created" -> 1
    [] s = "Bound" -> 2
    [] s = "Testing" -> 3
    [] s = "Live" -> 4
    [] s = "Ended" -> 5

TargetState(target) ==
  CASE target = "testing" -> "Testing"
    [] target = "live" -> "Live"
    [] target = "complete" -> "Ended"

\* the lifecycle edges a transition call can take
LifecycleEdge(s, t) ==
  \/ s = "Bound" /\ t = "Testing"
  \/ s = "Testing" /\ t = "Live"
  \/ s = "Bound" /\ t = "Live"
  \/ s = "Live" /\ t = "Ended"

\* the platform can accept a transition call along an edge, or a repeat of
\* the state the broadcast is in; it rejects everything else
PlatformMayAccept(s, target) ==
  \/ LifecycleEdge(s, TargetState(target))
  \/ s = TargetState(target)

\* Transition(broadcastId, target) with outcome ok (TRUE) or error (FALSE)
PlatformTransition(b, target, ok) ==
  IF ok
  THEN /\ b \in BroadcastIds
       /\ PlatformMayAccept(bstate[b], target)
       /\ bstate' = [bstate EXCEPT ![b] = TargetState(target)]
  ELSE bstate' = bstate

\* identifier the platform gives to the next broadcast / endpoint
NextBroadcastId ==
  Cardinality({b \in BroadcastIds : bstate[b] # "Unscheduled"}) + 1
NextEndpointId == Len(endpoints) + 1

\* endpoints the channel may hold before the first run; their identifiers
\* are apart from the ones the platform hands out later
OldOther == [id |-> 11, title |-> OtherStreamTitle, key |-> <<"key", 11>>]
OldFixed == [id |-> 12, title |-> youtubeStreamTitle, key |-> <<"key", 12>>]
InitEndpoints == { <<>>, <<OldOther>>, <<OldFixed>>, <<OldOther, OldFixed>> }

(* ------------------------- strings and time ---------------------------- *)
\* A string is the sequence of its characters. The values of --time tried:
\* the default of --time
Str_SUNRISE == <<"S", "U", "N", "R", "I", "S", "E">>
\* the token in lower case
Str_sunset == <<"s", "u", "n", "s", "e", "t">>
\* a token in mixed case with a character after it
Str_SunRises == <<"S", "u", "n", "R", "i", "s", "e", "s">>
\* the explicit time of the README
Str_Evening == <<"2", "0", "2", "6", "-", "0", "1", "-", "2", "5", "T", "2", "0", ":", "0", "0", ":", "0", "0">>
\* a wall-clock time that daylight saving skips in the Pacific zone
Str_Skipped == <<"2", "0", "2", "6", "-", "0", "3", "-", "0", "8", "T", "0", "2", ":", "3", "0", ":", "0", "0">>
\* thirteenth month
Str_BadMonth == <<"2", "0", "2", "6", "-", "1", "3", "-", "2", "5", "T", "2", "0", ":", "0", "0", ":", "0", "0">>
\* thirtieth of February
Str_BadDay == <<"2", "0", "2", "6", "-", "0", "2", "-", "3", "0", "T", "2", "0", ":", "0", "0", ":", "0", "0">>
\* one digit of hour
Str_ShortHour == <<"2", "0", "2", "6", "-", "0", "1", "-", "2", "5", "T", "9", ":", "0", "0", ":", "0", "0">>
\* a fraction of a second after the seconds
Str_Fraction == <<"2", "0", "2", "6", "-", "0", "1", "-", "2", "5", "T", "2", "0", ":", "0", "0", ":", "0", "0", ".", "5">>
\* a blank for the T
Str_Blank == <<"2", "0", "2", "6", "-", "0", "1", "-", "2", "5", " ", "2", "0", ":", "0", "0", ":", "0", "0">>
\* no seconds
Str_NoSeconds == <<"2", "0", "2", "6", "-", "0", "1", "-", "2", "5", "T", "2", "0", ":", "0", "0">>
\* text after the seconds
Str_Zulu == <<"2", "0", "2", "6", "-", "0", "1", "-", "2", "5", "T", "2", "0", ":", "0", "0", ":", "0", "0", "Z">>
\* a word that is no token
Str_Noon == <<"N", "O", "O", "N">>
\* nothing
Str_Empty == <<>>

TimeStrings ==
  {Str_SUNRISE, Str_sunset, Str_SunRises, Str_Evening,
   Str_Skipped, Str_BadMonth, Str_BadDay, Str_ShortHour,
   Str_Fraction, Str_Blank, Str_NoSeconds, Str_Zulu,
   Str_Noon, Str_Empty}

Digits == <<"0", "1", "2", "3", "4", "5", "6", "7", "8", "9">>

\* isDigit(s, i) of package time, the index counted from 1
isDigit(s, i) == i <= Len(s) /\ \E d \in 1..Len(Digits) : Digits[d] = s[i]

\* the value of a digit character
DigitVal(c) == (CHOOSE d \in 1..Len(Digits) : Digits[d] = c) - 1

\* s without its first n characters
Drop(s, n) == SubSeq(s, n + 1, Len(s))

\* unicode.ToUpper on the letters of the tokens
Upper(c) ==
  CASE c = "s" -> "S" [] c = "u" -> "U" [] c = "n" -> "N" [] c = "r" -> "R"
    [] c = "i" -> "I" [] c = "e" -> "E" [] c = "t" -> "T" [] OTHER -> c

\* strings.ToUpper
ToUpper(s) == [i \in 1..Len(s) |-> Upper(s[i])]

\* getnum of package time: one or two digits, two when fixed
BadNum(s) == [err |-> TRUE, n |-> 0, rest |-> s]
getnum(s, fixed) ==
  IF ~isDigit(s, 1) THEN BadNum(s)
  ELSE IF ~isDigit(s, 2)
       THEN IF fixed THEN BadNum(s)
            ELSE [err |-> FALSE, n |-> DigitVal(s[1]), rest |-> Drop(s, 1)]
       ELSE [err |-> FALSE, n |-> 10 * DigitVal(s[1]) + DigitVal(s[2]),
             rest |-> Drop(s, 2)]

\* the four digits of stdLongYear
getyear(s) ==
  IF Len(s) >= 4 /\ \A i \in 1..4 : isDigit(s, i)
  THEN [err |-> FALSE,
        n |-> 1000 * DigitVal(s[1]) + 100 * DigitVal(s[2])
              + 10 * DigitVal(s[3]) + DigitVal(s[4]),
        rest |-> Drop(s, 4)]
  ELSE BadNum(s)

\* skip of package time for a literal character of the layout
skip(s, c) ==
  IF Len(s) = 0 \/ s[1] # c THEN [err |-> TRUE, rest |-> s]
  ELSE [err |-> FALSE, rest |-> Drop(s, 1)]

\* the digits of a fraction of a second that follows the seconds though the
\* layout has none: Parse takes them too
RECURSIVE DropDigits(_)
DropDigits(s) == IF isDigit(s, 1) THEN DropDigits(Drop(s, 1)) ELSE s

commaOrPeriod(c) == c \in {".", ","}

fraction(s) ==
  IF Len(s) >= 2 /\ commaOrPeriod(s[1]) /\ isDigit(s, 2)
  THEN [taken |-> TRUE, rest |-> DropDigits(Drop(s, 1))]
  ELSE [taken |-> FALSE, rest |-> s]

(* the calendar *)
EpochYear == 2026
SecondsPerMinute == 60
SecondsPerHour == 3600
SecondsPerDay == 86400

isLeap(year) == year % 4 = 0 /\ (year % 100 # 0 \/ year % 400 = 0)

daysIn(month, year) ==
  CASE month = 2 -> IF isLeap(year) THEN 29 ELSE 28
    [] month \in {4, 6, 9, 11} -> 30
    [] OTHER -> 31

\* days of the year before the first of the month
RECURSIVE daysBefore(_, _)
daysBefore(month, year) ==
  IF month = 1 THEN 0
  ELSE daysBefore(month - 1, year) + daysIn(month - 1, year)

\* days from the first of January of EpochYear to that of year
RECURSIVE daysSinceEpoch(_)
daysSinceEpoch(year) ==
  IF year <= EpochYear THEN 0
  ELSE daysSinceEpoch(year - 1) + daysBefore(12, year - 1) + 31

\* a time is a count of seconds since the start of EpochYear in UTC; the
\* count for the fields of a wall clock read as UTC
Wall(year, month, day, hour, min, sec) ==
  (daysSinceEpoch(year) + daysBefore(month, year) + day - 1) * SecondsPerDay
  + hour * SecondsPerHour + min * SecondsPerMinute + sec

\* the fields of a count read as UTC (Time.Date and Time.Clock)
Fields(w) ==
  LET days == w \div SecondsPerDay
      secs == w % SecondsPerDay
      year == CHOOSE y \in EpochYear..(EpochYear + 1) :
                daysSinceEpoch(y) <= days /\ days < daysSinceEpoch(y + 1)
      yday == days - daysSinceEpoch(year)
      month == CHOOSE m \in 1..12 :
                 /\ daysBefore(m, year) <= yday
                 /\ yday < daysBefore(m, year) + daysIn(m, year)
  IN [year |-> year, month |-> month,
      day |-> yday - daysBefore(month, year) + 1,
      hour |-> secs \div SecondsPerHour,
      min |-> (secs % SecondsPerHour) \div SecondsPerMinute,
      sec |-> secs % SecondsPerMinute]

(* time.Local: a zone is its offset from UTC before and from the instant of
   its one change on *)
ZoneUTC == [name |-> "UTC", before |-> 0, after |-> 0, at |-> 0]
ZonePacific ==
  [name |-> "America/Los_Angeles", before |-> 0 - 8 * SecondsPerHour,
   after |-> 0 - 7 * SecondsPerHour, at |-> Wall(2026, 3, 8, 10, 0, 0)]
Zones == {ZoneUTC, ZonePacific}

\* Location.lookup: the period an instant falls in, and its offset
lookup(zone, t) ==
  IF t < zone.at THEN [offset |-> zone.before, changed |-> FALSE]
  ELSE [offset |-> zone.after, changed |-> TRUE]

\* time.Date in a zone: the offset is looked up at the wall clock read as
\* UTC, and looked up again at the instant it gives when that instant falls
\* outside the period found
Date(year, month, day, hour, min, sec, zone) ==
  LET unix == Wall(year, month, day, hour, min, sec)
      p == lookup(zone, unix)
      utc == unix - p.offset
  IN IF p.offset = 0 THEN unix
     ELSE IF lookup(zone, utc).changed # p.changed
          THEN unix - lookup(zone, utc).offset
          ELSE utc

\* the wall clock of an instant in a zone
LocalFields(t, zone) == Fields(t + lookup(zone, t).offset)

\* time.Parse with the layout "2006-01-02T15:04:05": year of four digits,
\* month, day, minute and second of two, hour of one or two, the literals
\* in between, a fraction of a second let through, nothing after it
ParseError == [err |-> TRUE, year |-> 0, month |-> 0, day |-> 0, hour |-> 0,
               min |-> 0, sec |-> 0, fraction |-> FALSE]

Parse(value) ==
  LET y == getyear(value)
      l1 == skip(y.rest, "-")
      mo == getnum(l1.rest, TRUE)
      l2 == skip(mo.rest, "-")
      d == getnum(l2.rest, TRUE)
      l3 == skip(d.rest, "T")
      h == getnum(l3.rest, FALSE)
      l4 == skip(h.rest, ":")
      mi == getnum(l4.rest, TRUE)
      l5 == skip(mi.rest, ":")
      s == getnum(l5.rest, TRUE)
      f == fraction(s.rest)
  IN IF \/ y.err \/ l1.err \/ mo.err \/ l2.err \/ d.err \/ l3.err
        \/ h.err \/ l4.err \/ mi.err \/ l5.err \/ s.err
        \/ mo.n < 1 \/ mo.n > 12
        \/ h.n >= 24 \/ mi.n >= 60 \/ s.n >= 60
        \/ Len(f.rest) > 0
     THEN ParseError
     ELSE IF d.n < 1 \/ d.n > daysIn(mo.n, y.n)
          THEN ParseError
          ELSE [err |-> FALSE, year |-> y.n, month |-> mo.n, day |-> d.n,
                hour |-> h.n, min |-> mi.n, sec |-> s.n,
                fraction |-> f.taken]

\* time.ParseInLocation(layout, value, time.Local)
ParseInLocation(value, zone) ==
  LET p == Parse(value)
  IN IF p.err THEN [err |-> TRUE, time |-> 0]
     ELSE [err |-> FALSE,
           time |-> Date(p.year, p.month, p.day, p.hour, p.min, p.sec,
                         zone)]


\* the resolver's records before a run
NoArgs == [time |-> <<>>, city |-> FALSE, startOffset |-> 0, endOffset |-> 0]
NoSun == [Sunrise |-> 0, Sunset |-> 0]
NoOut == [cmd |-> "none", offset |-> 0, sun |-> NoSun, calls |-> <<>>,
          time |-> 0, exit |-> 0]

(* ----------------------- wind direction (Lua) -------------------------- *)
\* A Lua value as the scripts use them: a number, a string or nil
LuaNumber(n) == [type |-> "number", n |-> n, s |-> <<>>]
LuaString(s) == [type |-> "string", n |-> 0, s |-> s]
LuaNil == [type |-> "nil", n |-> 0, s |-> <<>>]

\* a string that is a decimal integer, with or without a minus sign
Unsigned(s) == IF s # <<>> /\ s[1] = "-" THEN Drop(s, 1) ELSE s
IsNumeral(s) ==
  /\ Unsigned(s) # <<>>
  /\ \A i \in 1..Len(Unsigned(s)) : isDigit(Unsigned(s), i)
RECURSIVE DecimalValue(_)
DecimalValue(s) ==
  IF s = <<>> THEN 0
  ELSE DecimalValue(SubSeq(s, 1, Len(s) - 1)) * 10 + DigitVal(s[Len(s)])

\* tonumber of Lua on the values above: a number is itself, a string that
\* is a decimal integer is that integer, anything else is nil
tonumber(v) ==
  IF v.type = "number" THEN v
  ELSE IF v.type = "string" /\ IsNumeral(v.s)
       THEN LuaNumber(IF v.s[1] = "-" THEN 0 - DecimalValue(Unsigned(v.s))
                      ELSE DecimalValue(v.s))
       ELSE LuaNil

\* a % b of Lua: a - floor(a / b) * b, the sign of the result is that of b
LuaMod(a, b) == a - (a \div b) * b

\* the table of degrees_to_cardinal
directions ==
  <<"N", "NNE", "NE", "ENE", "E", "ESE", "SE", "SSE",
    "S", "SSW", "SW", "WSW", "W", "WNW", "NW", "NNW">>

\* The function computes with 11.25 and 22.5 on whole degrees; here both
\* are counted in quarters of a degree, which is exact: 11.25 is 45 quarters
\* and 22.5 is 90 quarters, and (deg + 11.25) / 22.5 is
\* (4 * deg + 45) / 90.
QuartersPerDegree == 4
HalfSector == 45
Sector == 90
FullCircle == 360

\* variant: the ranges are not centred
degrees_to_cardinal_NoOffset(degrees) ==
  LET deg == tonumber(degrees)
  IN IF deg.type = "nil" THEN "N/A"
     ELSE LET norm == LuaMod(deg.n, FullCircle)
              index == LuaMod((QuartersPerDegree * norm) \div Sector,
                              Len(directions)) + 1
          IN directions[index]

\* degrees_to_cardinal
degrees_to_cardinal(degrees) ==
  LET deg == tonumber(degrees)
  IN IF deg.type = "nil" THEN "N/A"
     ELSE LET norm == LuaMod(deg.n, FullCircle)
              index == LuaMod((QuartersPerDegree * norm + HalfSector)
                                \div Sector, Len(directions)) + 1
          IN directions[index]

\* the degrees tried: every whole number of degrees up to MaxDegrees either
\* way, and fields of the station's line as the script reads them
MaxDegrees == 720
Str_225 == <<"2", "2", "5">>
Str_045 == <<"0", "4", "5">>
Str_Minus90 == <<"-", "9", "0">>
Str_NA == <<"N", "/", "A">>
DegreeFields ==
  {LuaString(Str_225), LuaString(Str_045), LuaString(Str_Minus90),
   LuaString(Str_NA), LuaString(Str_Empty)}
DegreeValues ==
  {LuaNumber(d) : d \in (0 - MaxDegrees)..MaxDegrees} \cup DegreeFields

\* no conversion has been asked for
InitCardinal == cDeg = LuaNil /\ cOut = "none"

(* --------------------- weather script (Lua): values -------------------- *)
\* begin_at and end_at, in minutes of the day
begin_at == 6 * 60 + 30
end_at == 17 * 60 + 30

\* os.date("%H"), os.date("%M") and the minute of the day of a clock
\* reading; the clock counts the seconds of local time from a midnight
MinutesPerHour == 60
HoursPerDay == 24
HourOf(t) == (t \div SecondsPerHour) % HoursPerDay
MinuteOf(t) == (t \div SecondsPerMinute) % MinutesPerHour
MinuteOfDay(t) == HourOf(t) * MinutesPerHour + MinuteOf(t)
ClockAt(hour, min, sec) ==
  hour * SecondsPerHour + min * SecondsPerMinute + sec

\* the texts a text source can show
NoText == [kind |-> "none", speed |-> <<>>, gust |-> <<>>, dir |-> "",
           stamp |-> 0, suffix |-> ""]
PlaceholderText == [NoText EXCEPT !.kind = "-- mph, -- mph, -- "]
WindText(speed, gust, dir) ==
  [NoText EXCEPT !.kind = "wind", !.speed = speed, !.gust = gust,
                 !.dir = dir]
OfflineSuffix == " (offline)"
DateText(t, offline) ==
  [NoText EXCEPT !.kind = "date", !.stamp = t \div SecondsPerMinute,
                 !.suffix = IF offline THEN OfflineSuffix ELSE ""]
ErrorText(kind) == [NoText EXCEPT !.kind = kind]

\* what curl gives: no handle, no data, or the last line of the data as its
\* comma-separated fields
Str_Time == <<"1", "2", ":", "0", "0">>
Str_Date == <<"1", "/", "2", "5", "/", "2", "0", "2", "6">>
Str_07 == <<"0", "7">>
Str_12 == <<"1", "2">>
Line_Full == <<Str_Time, Str_Date, Str_07, Str_12, Str_225>>
Line_Short == <<Str_Time, Str_Date>>
CurlOutcomes ==
  {[handle |-> FALSE, data |-> FALSE, fields |-> <<>>],
   [handle |-> TRUE, data |-> FALSE, fields |-> <<>>],
   [handle |-> TRUE, data |-> TRUE, fields |-> Line_Full],
   [handle |-> TRUE, data |-> TRUE, fields |-> Line_Short]}

\* fields[i] or "N/A"
FieldOr(fields, i) == IF i <= Len(fields) THEN fields[i] ELSE Str_NA
\* string.gsub(s, "^0", "")
StripZero(s) == IF s # <<>> /\ s[1] = "0" THEN Drop(s, 1) ELSE s

\* update_interval before the settings are read, and the values tried
DefaultInterval == 60
UpdateIntervals == {10, DefaultInterval}

\* the script is loaded and nothing has been fetched
InitScript ==
  /\ wxClock = ClockAt(12, 0, 0)
  /\ wxLast = 0 /\ wxInterval = DefaultInterval
  /\ wxWindName = "" /\ wxDateName = ""
  /\ wxWind = NoText /\ wxDate = NoText
  /\ wxTimer = <<>>

(* ------------------ the controller, twice: values ---------------------- *)
\* no method of the controller has been called
NoRun == [method |-> "none"]
InitVersions == vIn = NoRun /\ vNew = NoRun /\ vOld = NoRun

(* ------------------------ self-update: values -------------------------- *)
VERSION == "0.0.1"
\* the tags a release can carry: this version, a later one, and the empty
\* tag of a response that held no tag_name
NoTag == ""
Tags == {VERSION, "0.0.2", NoTag}

\* what a path can hold: nothing, a created file without bytes, a file cut
\* short, or the whole body served by a URL or built for a tag
Absent == [kind |-> "absent"]
Empty == [kind |-> "empty"]
Partial == [kind |-> "partial"]
Binary(of) == [kind |-> "binary", of |-> of]

\* the launcher as installed: the executable of VERSION, no neighbours
InstalledFiles == [exec |-> Binary(VERSION), new |-> Absent, old |-> Absent]
NoRelease == [TagName |-> NoTag, Assets |-> <<>>]
NoApply == [applied |-> FALSE, release |-> NoRelease, tag |-> VERSION,
            files |-> InstalledFiles, again |-> FALSE]

\* NewUpdater(VERSION) on the installed launcher
InitUpdater ==
  /\ uTag = VERSION
  /\ uFiles = InstalledFiles
  /\ uOps = <<>> /\ uRet = "none" /\ uLast = NoApply

InitTools == InitCardinal /\ InitScript /\ InitVersions /\ InitUpdater

(* ------------------------------- Init ---------------------------------- *)
\* the machine before the first command
InitMachine ==
  /\ handoff \in InitHandoff
  /\ crontab = <<>>
  /\ now = 0
  /\ goos \in GOOS

\* no process of the launcher is running
InitProcesses ==
  /\ spc = "idle" /\ sStart = 0 /\ sEnd = 0 /\ sBroadcast = NoId
  /\ sStream = NilStream /\ sCalls = <<>> /\ sErr = "none"
  /\ sRet = [broadcast |-> NoId, stream |-> NilStream] /\ sExit = 0
  /\ sRegs = <<>>
  /\ gpc = "idle" /\ gId = NoId /\ gOrigin = "none" /\ gPre = "Unscheduled"
  /\ gTestErr = FALSE /\ gLiveErr = FALSE /\ gResult = "none"
  /\ epc = "idle" /\ eId = NoId /\ eOrigin = "none" /\ eResult = "none"
  /\ gFlag = NoId /\ gRead = "none" /\ gObs = "none" /\ gPaused = FALSE
  /\ gSlept = 0
  /\ gCalls = <<>> /\ gExit = 0
  /\ eFlag = NoId /\ eRead = "none" /\ eCalls = <<>> /\ eExit = 0
  /\ taskLive = {}
  /\ lastSaved = NoId
  /\ wpc = "idle" /\ wId = NoId /\ wDuration = 0 /\ wElapsed = 0
  /\ wDone = FALSE /\ wTick = FALSE /\ wCalls = 0 /\ wVia = "none"
  /\ wCalledAt = 0 /\ wReported = <<>>

\* the machine and the processes before the first command
InitLocal == InitMachine /\ InitProcesses

\* the platform before the first command: no broadcast of this program
InitPlatform ==
  /\ bstate = [b \in BroadcastIds |-> "Unscheduled"]
  /\ bound = [b \in BroadcastIds |-> NoId]
  /\ endpoints \in InitEndpoints

\* no run has resolved a time yet; the machine is in some time zone
InitResolver ==
  /\ rLocal \in Zones
  /\ rArgs = NoArgs /\ rSun = NoSun /\ rCalls = <<>> /\ rErr = "none"
  /\ rOut = NoOut

Init == InitPlatform /\ InitLocal /\ InitResolver /\ InitTools

(* --------------------------- time resolution --------------------------- *)
\* variant: the start offset is added to an explicit time as well
ResolveStart_OffsetsAll(flag, explicit, startOffset, sun) ==
  CASE flag = "SUNRISE" -> sun.Sunrise + startOffset
    [] flag = "SUNSET" -> sun.Sunset + startOffset
    [] OTHER -> explicit + startOffset

\* start time: the sun event plus the start offset, or the explicit time
ResolveStart(flag, explicit, startOffset, sun) ==
  CASE flag = "SUNRISE" -> sun.Sunrise + startOffset
    [] flag = "SUNSET" -> sun.Sunset + startOffset
    [] OTHER -> explicit

\* end time: always sunset plus the end offset
ResolveEnd(endOffset, sun) == sun.Sunset + endOffset

\* time.Duration is a signed word of 64 bits that counts nanoseconds. Here a
\* time counts seconds and the word has DurationBits bits: a product that
\* leaves the word wraps around as it does there, at FarOffset minutes
\* instead of 153 722 868.
DurationBits == 16
MaxDuration == 2 ^ (DurationBits - 1) - 1
WrapDuration(n) ==
  ((n + MaxDuration + 1) % (2 ^ DurationBits)) - (MaxDuration + 1)

\* time.Minute
Minute == SecondsPerMinute

\* time.Duration(offset) * time.Minute
Minutes(offset) == WrapDuration(offset * Minute)

\* the least offset whose product with time.Minute leaves the word
FarOffset == MaxDuration \div Minute + 1

\* the values of --start-offset, --end-offset and --offset tried: the
\* defaults of "stream schedule", none, and one past the word
StartOffsetFlags == {0 - 30, 0, FarOffset}
EndOffsetFlags == {30, FarOffset}
OffsetFlags == StartOffsetFlags \cup EndOffsetFlags

\* the sun times of a day as the lookup gives them for San Bernardino:
\* sunrise 06:45 and sunset 17:10 of 25 January, Pacific time
SunTimesOfDay ==
  {[Sunrise |-> Wall(2026, 1, 25, 14, 45, 0),
    Sunset |-> Wall(2026, 1, 26, 1, 10, 0)]}

\* the tokens --time is compared with
SUNRISE == <<"S", "U", "N", "R", "I", "S", "E">>
SUNSET == <<"S", "U", "N", "S", "E", "T">>

\* how a lookup over the network can end: an answer, no answer or one that
\* cannot be read, an answer that reports no success or holds no result
LookupOutcomes == {"ok", "failed", "nonSuccess"}

\* variant: the sun times are asked for whatever the location lookup gave
getSunTimesForLocation_AsksAnyway(city, loc, sunOutcome, sun) ==
  LET locCall == IF city THEN "getLocationFromCity" ELSE "getLocationFromIP"
      calls == << <<locCall, loc>>, <<"getSunTimes", sunOutcome>> >>
  IN IF loc # "ok"
     THEN [err |-> "LocationUnresolved", calls |-> calls, sun |-> NoSun]
     ELSE IF sunOutcome # "ok"
          THEN [err |-> "SunDataUnavailable", calls |-> calls, sun |-> NoSun]
          ELSE [err |-> "none", calls |-> calls, sun |-> sun]

\* getSunTimesForLocation: the city is geocoded when one is given, the
\* address of the machine located otherwise; the sun times are asked for
\* only with a location; either failure ends the process. The calls made
\* are returned with the way each ended.
getSunTimesForLocation(city, loc, sunOutcome, sun) ==
  LET locCall == IF city THEN "getLocationFromCity" ELSE "getLocationFromIP"
  IN IF loc # "ok"
     THEN [err |-> "LocationUnresolved", calls |-> << <<locCall, loc>> >>,
           sun |-> NoSun]
     ELSE IF sunOutcome # "ok"
          THEN [err |-> "SunDataUnavailable",
                calls |-> << <<locCall, loc>>, <<"getSunTimes", sunOutcome>> >>,
                sun |-> NoSun]
          ELSE [err |-> "none",
                calls |-> << <<locCall, loc>>, <<"getSunTimes", sunOutcome>> >>,
                sun |-> sun]

\* the branch of cmdStreamSchedule that --time selects
FlagOf(time) ==
  IF ToUpper(time) = SUNRISE THEN "SUNRISE"
  ELSE IF ToUpper(time) = SUNSET THEN "SUNSET"
  ELSE "EXPLICIT"

(* ----------------------------- crontab --------------------------------- *)
CronEntry(taskName, cmd, id, runTime) ==
  [task |-> taskName, cmd |-> cmd, id |-> id, time |-> runTime]

\* variant: every line of the crontab is kept
KeepOthers_All(lines, taskName) == lines

\* the lines that do not carry the tag of taskName, in their order
RECURSIVE KeepOthers(_, _)
KeepOthers(lines, taskName) ==
  IF lines = <<>> THEN <<>>
  ELSE IF Head(lines).task # taskName
       THEN <<Head(lines)>> \o KeepOthers(Tail(lines), taskName)
       ELSE KeepOthers(Tail(lines), taskName)

\* createUnixTask: drop the lines tagged taskName, append the new entry
createUnixTask(lines, taskName, cmd, id, runTime) ==
  Append(KeepOthers(lines, taskName), CronEntry(taskName, cmd, id, runTime))

\* schtasks /query /tn taskName succeeds
TaskExists(tasks, taskName) ==
  \E i \in 1..Len(tasks) : tasks[i].task = taskName

\* schtasks /delete /tn taskName /f
DeleteTask(tasks, taskName) ==
  SelectSeq(tasks, LAMBDA e : e.task # taskName)

\* how a registration can end on the machine at hand: the delete can fail
\* only where it is run, on Windows with the task already there
TaskOutcomes(os, tasks, taskName) ==
  {"ok", "createFailed"} \cup
  (IF os = "windows" /\ TaskExists(tasks, taskName)
   THEN {"deleteFailed"} ELSE {})

\* createWindowsTask: delete the task if it is there, then create it
createWindowsTask(tasks, taskName, cmd, id, runTime, outcome) ==
  CASE outcome = "deleteFailed" -> [err |-> TRUE, tasks |-> tasks]
    [] outcome = "createFailed" ->
         [err |-> TRUE, tasks |-> DeleteTask(tasks, taskName)]
    [] outcome = "ok" ->
         [err |-> FALSE,
          tasks |-> Append(DeleteTask(tasks, taskName),
                           CronEntry(taskName, cmd, id, runTime))]

\* createScheduledTask: the registration of the machine's system, with the
\* error it returns and the registry it leaves
createScheduledTask(os, tasks, taskName, cmd, id, runTime, outcome) ==
  IF os = "windows"
  THEN createWindowsTask(tasks, taskName, cmd, id, runTime, outcome)
  ELSE IF outcome = "ok"
       THEN [err |-> FALSE,
             tasks |-> createUnixTask(tasks, taskName, cmd, id, runTime)]
       ELSE [err |-> TRUE, tasks |-> tasks]

(* --------------------------- ScheduleStream ---------------------------- *)
\* variant: the lookup never matches, an endpoint is made for every run
FindStream_NoMatch(items) == NilStream

\* the first listed endpoint carrying the fixed title, or nil
RECURSIVE FindStream(_)
FindStream(items) ==
  IF items = <<>> THEN NilStream
  ELSE IF Head(items).title = youtubeStreamTitle THEN Head(items)
       ELSE FindStream(Tail(items))

\* the response of LiveStreams.Insert for the request req
StreamResponse(req) ==
  [id |-> NextEndpointId, title |-> req.title, key |-> <<"key", NextEndpointId>>]

\* variant: going on with the request object instead of the response
InsertedStream_Request(req, response) == req

\* the stream ScheduleStream goes on with after a successful insert
InsertedStream(req, response) == response

\* variant: binding the identifier kept in the handoff file
BindTarget_Stale ==
  IF IdOfString(TrimSpace(handoff.data)) \in BroadcastIds
  THEN IdOfString(TrimSpace(handoff.data))
  ELSE sBroadcast

\* the broadcast identifier handed to LiveBroadcasts.Bind
BindTarget == sBroadcast

\* the (broadcast, stream) pair ScheduleStream returns on success
ScheduleResult(broadcastId, stream) ==
  [broadcast |-> broadcastId, stream |-> stream]

NilResult == [broadcast |-> NoId, stream |-> NilStream]

\* variant: cmdStreamSchedule goes on after an error of ScheduleStream
ScheduleFail_GoesOn(err) ==
  /\ sErr' = err
  /\ sRet' = NilResult
  /\ sExit' = sExit
  /\ spc' = "save"

\* ScheduleStream returns (nil, nil, err): cmdStreamSchedule exits with 1
ScheduleFail(err) ==
  /\ sErr' = err
  /\ sRet' = NilResult
  /\ sExit' = 1
  /\ spc' = "done"

\* cmdStreamSchedule up to the call of ScheduleStream: resolve the times
SchedBegin(flag, explicit, startOffset, endOffset, sun) ==
  /\ spc = "idle"
  /\ NextBroadcastId <= MaxBroadcasts
  /\ sStart' = ResolveStart(flag, explicit, startOffset, sun)
  /\ sEnd' = ResolveEnd(endOffset, sun)
  /\ spc' = "init"
  /\ UNCHANGED <<platformVars, osVars, sBroadcast, sStream, sCalls, sErr,
                 sRet, sExit, startVars, endVars, histVars, waitVars>>
  /\ UNCHANGED <<resolveVars, toolVars>>
  /\ UNCHANGED sRegs

\* cmdStreamSchedule up to the call of NewStreamScheduler, with the flags as
\* they are typed: --time is upper-cased and compared with the tokens; any
\* other value is parsed before anything is looked up, and a value that does
\* not parse ends the run; the sun times are looked up in every other run,
\* and a lookup that fails ends it
cmdStreamSchedule(time, city, startOffset, endOffset, loc, sunOutcome, sun) ==
  /\ spc = "idle"
  /\ NextBroadcastId <= MaxBroadcasts
  /\ rArgs' = [time |-> time, city |-> city, startOffset |-> startOffset,
               endOffset |-> endOffset]
  /\ LET flag == FlagOf(time)
         parsed == IF flag = "EXPLICIT" THEN ParseInLocation(time, rLocal)
                   ELSE [err |-> FALSE, time |-> 0]
         look == getSunTimesForLocation(city, loc, sunOutcome, sun)
     IN IF parsed.err
        THEN /\ rErr' = "InvalidTimeFormat"
             /\ rCalls' = <<>> /\ rSun' = NoSun
             /\ sExit' = 1 /\ spc' = "done"
             /\ UNCHANGED <<sStart, sEnd>>
        ELSE IF look.err # "none"
             THEN /\ rErr' = look.err
                  /\ rCalls' = look.calls /\ rSun' = NoSun
                  /\ sExit' = 1 /\ spc' = "done"
                  /\ UNCHANGED <<sStart, sEnd>>
             ELSE /\ rErr' = "none"
                  /\ rCalls' = look.calls /\ rSun' = look.sun
                  /\ sStart' = ResolveStart(flag, parsed.time,
                                            Minutes(startOffset), look.sun)
                  /\ sEnd' = ResolveEnd(Minutes(endOffset), look.sun)
                  /\ spc' = "init"
                  /\ UNCHANGED sExit
  /\ UNCHANGED <<platformVars, osVars, sBroadcast, sStream, sCalls, sErr,
                 sRet, startVars, endVars, histVars, waitVars, rLocal, rOut>>
  /\ UNCHANGED <<sRegs, toolVars>>

\* cmdSunrise and cmdSunset: the sun times are looked up and the offset is
\* added to the event of the subcommand
cmdSun(event, city, offset, loc, sunOutcome, sun) ==
  /\ rOut.cmd = "none"
  /\ LET look == getSunTimesForLocation(city, loc, sunOutcome, sun)
     IN rOut' = IF look.err # "none"
                THEN [cmd |-> event, offset |-> offset, sun |-> NoSun,
                      calls |-> look.calls, time |-> 0, exit |-> 1]
                ELSE [cmd |-> event, offset |-> offset, sun |-> look.sun,
                      calls |-> look.calls,
                      time |-> (IF event = "sunrise" THEN look.sun.Sunrise
                                ELSE look.sun.Sunset) + Minutes(offset),
                      exit |-> 0]
  /\ UNCHANGED <<platformVars, osVars, schedVars, startVars, endVars,
                 histVars, waitVars, rLocal, rArgs, rSun, rCalls, rErr,
                 toolVars>>

\* the process of the subcommand is gone
SunExit ==
  /\ rOut.cmd # "none"
  /\ rOut' = NoOut
  /\ UNCHANGED <<platformVars, osVars, schedVars, startVars, endVars,
                 histVars, waitVars, rLocal, rArgs, rSun, rCalls, rErr,
                 toolVars>>

\* NewStreamScheduler in cmdStreamSchedule: without a client the run ends
Sched_NewScheduler(ok) ==
  /\ spc = "init"
  /\ IF ok THEN spc' = "create" /\ UNCHANGED sExit
     ELSE spc' = "done" /\ sExit' = 1
  /\ UNCHANGED <<platformVars, osVars, sStart, sEnd, sBroadcast, sStream,
                 sCalls, sErr, sRet, startVars, endVars, histVars, waitVars>>
  /\ UNCHANGED <<resolveVars, toolVars>>
  /\ UNCHANGED sRegs

\* variant: a broadcast the channel already holds is taken for the new one
SS_BroadcastInsert_Reuses(ok) ==
  /\ spc = "create"
  /\ sCalls' = Append(sCalls, <<"broadcasts.insert", ok>>)
  /\ IF ok
     THEN /\ IF NextBroadcastId = 1
             THEN /\ bstate' = [bstate EXCEPT ![1] = "Created"]
                  /\ sBroadcast' = 1
             ELSE /\ UNCHANGED bstate
                  /\ sBroadcast' = NextBroadcastId - 1
          /\ spc' = "list"
          /\ UNCHANGED <<sErr, sRet, sExit>>
     ELSE /\ ScheduleFail("BroadcastCreateFailed")
          /\ UNCHANGED <<bstate, sBroadcast>>
  /\ UNCHANGED <<bound, endpoints, osVars, sStart, sEnd, sStream,
                 startVars, endVars, histVars, waitVars>>
  /\ UNCHANGED <<resolveVars, toolVars>>
  /\ UNCHANGED sRegs

\* LiveBroadcasts.Insert
SS_BroadcastInsert(ok) ==
  /\ spc = "create"
  /\ sCalls' = Append(sCalls, <<"broadcasts.insert", ok>>)
  /\ IF ok
     THEN /\ bstate' = [bstate EXCEPT ![NextBroadcastId] = "Created"]
          /\ sBroadcast' = NextBroadcastId
          /\ spc' = "list"
          /\ UNCHANGED <<sErr, sRet, sExit>>
     ELSE /\ ScheduleFail("BroadcastCreateFailed")
          /\ UNCHANGED <<bstate, sBroadcast>>
  /\ UNCHANGED <<bound, endpoints, osVars, sStart, sEnd, sStream,
                 startVars, endVars, histVars, waitVars>>
  /\ UNCHANGED <<resolveVars, toolVars>>
  /\ UNCHANGED sRegs

\* variant: the listing error is dropped and the run goes on to the insert
SS_StreamList_IgnoreErr(ok) ==
  /\ spc = "list"
  /\ sCalls' = Append(sCalls, <<"streams.list", ok>>)
  /\ sStream' = IF ok THEN FindStream(endpoints) ELSE NilStream
  /\ spc' = IF sStream' = NilStream THEN "insert" ELSE "bind"
  /\ UNCHANGED <<platformVars, osVars, sStart, sEnd, sBroadcast, sErr, sRet,
                 sExit, startVars, endVars, histVars, waitVars>>
  /\ UNCHANGED <<resolveVars, toolVars>>
  /\ UNCHANGED sRegs

\* LiveStreams.List(mine) and the search for the fixed title
SS_StreamList(ok) ==
  /\ spc = "list"
  /\ sCalls' = Append(sCalls, <<"streams.list", ok>>)
  /\ IF ok
     THEN /\ sStream' = FindStream(endpoints)
          /\ spc' = IF sStream' = NilStream THEN "insert" ELSE "bind"
          /\ UNCHANGED <<sErr, sRet, sExit>>
     ELSE /\ ScheduleFail("StreamLookupFailed")
          /\ UNCHANGED sStream
  /\ UNCHANGED <<platformVars, osVars, sStart, sEnd, sBroadcast,
                 startVars, endVars, histVars, waitVars>>
  /\ UNCHANGED <<resolveVars, toolVars>>
  /\ UNCHANGED sRegs

\* LiveStreams.Insert, taken only when no endpoint matched
SS_StreamInsert(ok) ==
  /\ spc = "insert"
  /\ sCalls' = Append(sCalls, <<"streams.insert", ok>>)
  /\ IF ok
     THEN /\ endpoints' = Append(endpoints, StreamResponse(newStream))
          /\ sStream' = InsertedStream(newStream, StreamResponse(newStream))
          /\ spc' = "bind"
          /\ UNCHANGED <<sErr, sRet, sExit>>
     ELSE /\ ScheduleFail("StreamCreateFailed")
          /\ UNCHANGED <<endpoints, sStream>>
  /\ UNCHANGED <<bstate, bound, osVars, sStart, sEnd, sBroadcast,
                 startVars, endVars, histVars, waitVars>>
  /\ UNCHANGED <<resolveVars, toolVars>>
  /\ UNCHANGED sRegs

\* variant: a failed bind is tried a second time before giving up
SS_Bind_Retry(ok) ==
  /\ spc = "bind"
  /\ IF ok
     THEN /\ sCalls' = Append(sCalls, <<"broadcasts.bind", ok>>)
          /\ bound' = [bound EXCEPT ![BindTarget] = sStream.id]
          /\ bstate' = [bstate EXCEPT ![BindTarget] = "Bound"]
          /\ sErr' = "nil"
          /\ sRet' = ScheduleResult(sBroadcast, sStream)
          /\ spc' = "save"
          /\ UNCHANGED sExit
     ELSE /\ sCalls' = sCalls \o << <<"broadcasts.bind", FALSE>>,
                                    <<"broadcasts.bind", FALSE>> >>
          /\ ScheduleFail("BindFailed")
          /\ UNCHANGED <<bstate, bound>>
  /\ UNCHANGED <<endpoints, osVars, sStart, sEnd, sBroadcast, sStream,
                 startVars, endVars, histVars, waitVars>>
  /\ UNCHANGED <<resolveVars, toolVars>>
  /\ UNCHANGED sRegs

\* LiveBroadcasts.Bind and the return of ScheduleStream
SS_Bind(ok) ==
  /\ spc = "bind"
  /\ sCalls' = Append(sCalls, <<"broadcasts.bind", ok>>)
  /\ IF ok
     THEN /\ BindTarget \in BroadcastIds
          /\ bound' = [bound EXCEPT ![BindTarget] = sStream.id]
          /\ bstate' = [bstate EXCEPT ![BindTarget] = "Bound"]
          /\ sErr' = "nil"
          /\ sRet' = ScheduleResult(sBroadcast, sStream)
          /\ spc' = "save"
          /\ UNCHANGED sExit
     ELSE /\ ScheduleFail("BindFailed")
          /\ UNCHANGED <<bstate, bound>>
  /\ UNCHANGED <<endpoints, osVars, sStart, sEnd, sBroadcast, sStream,
                 startVars, endVars, histVars, waitVars>>
  /\ UNCHANGED <<resolveVars, toolVars>>
  /\ UNCHANGED sRegs

\* exec.Command("crontab", "-l").Output() with its error dropped: a listing
\* that fails reads as no lines at all
crontabList(lines, ok) == IF ok THEN lines ELSE <<>>

\* createUnixTask as a whole: the crontab is listed, the lines are
\* filtered, the entry is appended and the result is handed to "crontab -",
\* which replaces the crontab or fails and leaves it
createUnixTaskRun(lines, taskName, cmd, id, runTime, listOk, setOk) ==
  IF setOk
  THEN [err |-> FALSE,
        tasks |-> createUnixTask(crontabList(lines, listOk), taskName, cmd,
                                 id, runTime)]
  ELSE [err |-> TRUE, tasks |-> lines]

\* lines a crontab holds that are none of the launcher's: no tag
OwnJob == [task |-> "", cmd |-> "backup", id |-> NoId, time |-> 1]
OwnComment == [task |-> "", cmd |-> "# nightly", id |-> NoId, time |-> 0]

(* ------------------- cmdStreamSchedule after the call ------------------ *)
\* variant: a file that cannot be written ends the run
Sched_WriteHandoff_Fatal(outcome) ==
  /\ spc = "save"
  /\ handoff' = WriteFile(handoff, Bytes(sRet.broadcast), outcome)
  /\ lastSaved' = IF outcome = "ok" THEN sRet.broadcast ELSE lastSaved
  /\ IF outcome = "ok" THEN spc' = "regStart" /\ UNCHANGED sExit
     ELSE spc' = "done" /\ sExit' = 1
  /\ UNCHANGED <<platformVars, crontab, now, goos, sStart, sEnd,
                 sBroadcast, sStream, sCalls, sErr, sRet,
                 startVars, endVars, taskLive, waitVars>>
  /\ UNCHANGED <<resolveVars, toolVars>>
  /\ UNCHANGED sRegs

\* os.WriteFile(broadcast_id.txt): a failure is only a warning
Sched_WriteHandoff(outcome) ==
  /\ spc = "save"
  /\ handoff' = WriteFile(handoff, Bytes(sRet.broadcast), outcome)
  /\ lastSaved' = IF outcome = "ok" THEN sRet.broadcast ELSE lastSaved
  /\ spc' = "regStart"
  /\ UNCHANGED <<platformVars, crontab, now, goos, sStart, sEnd,
                 sBroadcast, sStream, sCalls, sErr, sRet, sExit,
                 startVars, endVars, taskLive, waitVars>>
  /\ UNCHANGED <<resolveVars, toolVars>>
  /\ UNCHANGED sRegs

\* variant: a start task that could not be registered is reported and the
\* run goes on to the end task
Sched_RegisterStart_GoesOn(outcome) ==
  /\ spc = "regStart"
  /\ outcome \in TaskOutcomes(goos, crontab, StartTaskName)
  /\ LET r == createScheduledTask(goos, crontab, StartTaskName, "start",
                                  sRet.broadcast, sStart, outcome)
     IN /\ crontab' = r.tasks
        /\ sRegs' = Append(sRegs, <<StartTaskName, ~r.err>>)
        /\ sExit' = IF r.err THEN 1 ELSE sExit
  /\ spc' = "regEnd"
  /\ UNCHANGED <<platformVars, handoff, now, goos, sStart, sEnd,
                 sBroadcast, sStream, sCalls, sErr, sRet,
                 startVars, endVars, histVars, waitVars>>
  /\ UNCHANGED <<resolveVars, toolVars>>

\* createScheduledTask("StartYouTubeStream", ..., startTime)
Sched_RegisterStart(outcome) ==
  /\ spc = "regStart"
  /\ outcome \in TaskOutcomes(goos, crontab, StartTaskName)
  /\ LET r == createScheduledTask(goos, crontab, StartTaskName, "start",
                                  sRet.broadcast, sStart, outcome)
     IN /\ crontab' = r.tasks
        /\ sRegs' = Append(sRegs, <<StartTaskName, ~r.err>>)
        /\ IF r.err THEN sExit' = 1 /\ spc' = "done"
           ELSE spc' = "regEnd" /\ UNCHANGED sExit
  /\ UNCHANGED <<platformVars, handoff, now, goos, sStart, sEnd,
                 sBroadcast, sStream, sCalls, sErr, sRet,
                 startVars, endVars, histVars, waitVars>>
  /\ UNCHANGED <<resolveVars, toolVars>>

\* variant: the run stays on after the two tasks and goes live itself
Sched_RegisterEnd_ThenGoLive(outcome) ==
  /\ spc = "regEnd"
  /\ outcome \in TaskOutcomes(goos, crontab, EndTaskName)
  /\ LET r == createScheduledTask(goos, crontab, EndTaskName, "end",
                                  sRet.broadcast, sEnd, outcome)
     IN /\ crontab' = r.tasks
        /\ sRegs' = Append(sRegs, <<EndTaskName, ~r.err>>)
        /\ sExit' = IF r.err THEN 1 ELSE sExit
  /\ spc' = "done"
  /\ gpc' = "testing" /\ gId' = sRet.broadcast /\ gOrigin' = "manual"
  /\ UNCHANGED <<platformVars, handoff, now, goos, sStart, sEnd,
                 sBroadcast, sStream, sCalls, sErr, sRet,
                 gPre, gTestErr, gLiveErr, gResult, gFlag, gRead, gObs,
                 gPaused, gSlept, gCalls, gExit, endVars, histVars, waitVars>>
  /\ UNCHANGED <<resolveVars, toolVars>>

\* variant: the end command names no broadcast and reads the handoff file
Sched_RegisterEnd_FromFile(outcome) ==
  /\ spc = "regEnd"
  /\ outcome \in TaskOutcomes(goos, crontab, EndTaskName)
  /\ LET r == createScheduledTask(goos, crontab, EndTaskName, "end",
                                  NoId, sEnd, outcome)
     IN /\ crontab' = r.tasks
        /\ sRegs' = Append(sRegs, <<EndTaskName, ~r.err>>)
        /\ sExit' = IF r.err THEN 1 ELSE sExit
  /\ spc' = "done"
  /\ UNCHANGED <<platformVars, handoff, now, goos, sStart, sEnd,
                 sBroadcast, sStream, sCalls, sErr, sRet,
                 startVars, endVars, histVars, waitVars>>
  /\ UNCHANGED <<resolveVars, toolVars>>

\* createScheduledTask("EndYouTubeStream", ..., endTime), then exit
Sched_RegisterEnd(outcome) ==
  /\ spc = "regEnd"
  /\ outcome \in TaskOutcomes(goos, crontab, EndTaskName)
  /\ LET r == createScheduledTask(goos, crontab, EndTaskName, "end",
                                  sRet.broadcast, sEnd, outcome)
     IN /\ crontab' = r.tasks
        /\ sRegs' = Append(sRegs, <<EndTaskName, ~r.err>>)
        /\ sExit' = IF r.err THEN 1 ELSE sExit
  /\ spc' = "done"
  /\ UNCHANGED <<platformVars, handoff, now, goos, sStart, sEnd,
                 sBroadcast, sStream, sCalls, sErr, sRet,
                 startVars, endVars, histVars, waitVars>>
  /\ UNCHANGED <<resolveVars, toolVars>>

\* the schedule process is gone, and its locals with it
SchedExit ==
  /\ spc = "done"
  /\ spc' = "idle" /\ sStart' = 0 /\ sEnd' = 0 /\ sBroadcast' = NoId
  /\ sStream' = NilStream /\ sCalls' = <<>> /\ sErr' = "none"
  /\ sRet' = NilResult /\ sExit' = 0 /\ sRegs' = <<>>
  /\ rArgs' = NoArgs /\ rSun' = NoSun /\ rCalls' = <<>> /\ rErr' = "none"
  /\ UNCHANGED <<platformVars, osVars, startVars, endVars, histVars,
                 waitVars, rLocal, rOut, toolVars>>

(* -------------------------------- GoLive ------------------------------- *)
\* variants of the return of GoLive, for the checks below
GoLiveResult_StaleErr(testErr, liveErr) ==
  IF testErr THEN "GoLiveFailed" ELSE "nil"
GoLiveResult_Swallowed(testErr, liveErr) == "nil"
GoLiveResult_TestingFatal(testErr, liveErr) ==
  IF testErr \/ liveErr THEN "GoLiveFailed" ELSE "nil"

\* what GoLive returns, given whether the testing and the live call failed
GoLiveResult(testErr, liveErr) ==
  IF liveErr THEN "GoLiveFailed" ELSE "nil"

\* variant: the process exits with 0 whatever the call returned
ExitCode_Zero(result) == 0

\* what a process exits with, given the error of its last call
ExitCode(result) == IF result = "nil" THEN 0 ELSE 1

\* variant: the file is looked at first, the -id flag only without it
ResolveId_FileFirst(idFlag, readOk) ==
  LET r == ReadFile(handoff, readOk)
  IN IF ~r.err /\ IdOfString(TrimSpace(r.data)) # NoId
     THEN [bid |-> IdOfString(TrimSpace(r.data)), read |-> "ok"]
     ELSE [bid |-> idFlag, read |-> IF r.err THEN "error" ELSE "ok"]

\* the identifier a start or end flow works on: the -id flag, else the
\* trimmed content of the file
ResolveId(idFlag, readOk) ==
  IF idFlag # NoId THEN [bid |-> idFlag, read |-> "none"]
  ELSE LET r == ReadFile(handoff, readOk)
       IN IF r.err THEN [bid |-> NoId, read |-> "error"]
          ELSE [bid |-> IdOfString(TrimSpace(r.data)), read |-> "ok"]

\* the start of OBS: skipped, failed (only reported), or started
ObsOutcome(skipOBS, launchOk) ==
  IF skipOBS THEN "skipped" ELSE IF launchOk THEN "started" ELSE "failed"

\* variant: a failed start of OBS ends the run
AfterResolve_LaunchFatal(bid, obs) ==
  IF bid = NoId
  THEN [pc |-> "done", obs |-> "none", result |-> "HandoffReadFailed"]
  ELSE IF obs = "failed"
       THEN [pc |-> "done", obs |-> obs, result |-> "LaunchFailed"]
       ELSE [pc |-> "init", obs |-> obs, result |-> "none"]

\* cmdStreamStart after the identifier: without one the run ends before
\* OBS; with one it goes on to the client whatever became of OBS
AfterResolve(bid, obs) ==
  IF bid = NoId
  THEN [pc |-> "done", obs |-> "none", result |-> "HandoffReadFailed"]
  ELSE [pc |-> "init", obs |-> obs, result |-> "none"]

\* variant: the pause is taken whenever the start of OBS was tried
cmdStreamStart_PausesAfterTry(idFlag, origin, readOk, skipOBS, launchOk) ==
  /\ gpc = "idle"
  /\ LET r == ResolveId(idFlag, readOk)
         a == AfterResolve(r.bid, ObsOutcome(skipOBS, launchOk))
     IN /\ gFlag' = idFlag
        /\ gRead' = r.read
        /\ gId' = r.bid
        /\ gObs' = a.obs
        /\ gPaused' = (a.obs \in {"started", "failed"})
        /\ gpc' = a.pc
        /\ gResult' = a.result
        /\ gExit' = IF a.pc = "done" THEN 1 ELSE 0
  /\ gOrigin' = origin
  /\ UNCHANGED <<gPre, gTestErr, gLiveErr, gCalls, gSlept>>
  /\ UNCHANGED <<resolveVars, toolVars>>

\* cmdStreamStart up to NewStreamScheduler: the identifier, OBS, the pause
cmdStreamStart(idFlag, origin, readOk, skipOBS, launchOk) ==
  /\ gpc = "idle"
  /\ LET r == ResolveId(idFlag, readOk)
         a == AfterResolve(r.bid, ObsOutcome(skipOBS, launchOk))
     IN /\ gFlag' = idFlag
        /\ gRead' = r.read
        /\ gId' = r.bid
        /\ gObs' = a.obs
        /\ gPaused' = (a.obs = "started")
        /\ gpc' = a.pc
        /\ gResult' = a.result
        /\ gExit' = IF a.pc = "done" THEN 1 ELSE 0
  /\ gOrigin' = origin
  /\ UNCHANGED <<gPre, gTestErr, gLiveErr, gCalls, gSlept>>
  /\ UNCHANGED <<resolveVars, toolVars>>

\* the operator runs "stream start", with or without -id and -skip-obs
StartManual(idFlag, readOk, skipOBS, launchOk) ==
  /\ cmdStreamStart(idFlag, "manual", readOk, skipOBS, launchOk)
  /\ UNCHANGED <<platformVars, osVars, schedVars, endVars, histVars, waitVars>>

\* NewStreamScheduler in cmdStreamStart: without a client the run ends
Start_NewScheduler(ok) ==
  /\ gpc = "init"
  /\ IF ok
     THEN gpc' = "testing" /\ UNCHANGED <<gResult, gExit>>
     ELSE gpc' = "done" /\ gResult' = "InitFailed" /\ gExit' = 1
  /\ UNCHANGED <<platformVars, osVars, schedVars, gId, gFlag, gOrigin, gPre,
                 gTestErr, gLiveErr, gRead, gObs, gPaused, gSlept, gCalls,
                 endVars,
                 histVars, waitVars>>
  /\ UNCHANGED <<resolveVars, toolVars>>

\* time.Sleep(2 * time.Second) in GoLive, in seconds
GoLivePause == 2

\* variant: GoLive returns when the testing transition fails
GoLive_Testing_StopsOnError(ok) ==
  /\ gpc = "testing"
  /\ gPre' = IF gId \in BroadcastIds THEN bstate[gId] ELSE "Unscheduled"
  /\ PlatformTransition(gId, "testing", ok)
  /\ gCalls' = Append(gCalls, <<"testing", gId, ok>>)
  /\ gTestErr' = ~ok
  /\ gSlept' = IF ok THEN GoLivePause ELSE 0
  /\ IF ok THEN gpc' = "live" /\ UNCHANGED <<gResult, gExit>>
     ELSE gpc' = "done" /\ gResult' = "GoLiveFailed" /\ gExit' = 1
  /\ UNCHANGED <<bound, endpoints, osVars, schedVars, gId, gFlag, gOrigin,
                 gLiveErr, gRead, gObs, gPaused, endVars,
                 histVars, waitVars>>
  /\ UNCHANGED <<resolveVars, toolVars>>

\* variant: the pause is taken whatever the testing call gave
GoLive_Testing_AlwaysSleeps(ok) ==
  /\ gpc = "testing"
  /\ gPre' = IF gId \in BroadcastIds THEN bstate[gId] ELSE "Unscheduled"
  /\ PlatformTransition(gId, "testing", ok)
  /\ gCalls' = Append(gCalls, <<"testing", gId, ok>>)
  /\ gTestErr' = ~ok
  /\ gSlept' = GoLivePause
  /\ gpc' = "live"
  /\ UNCHANGED <<bound, endpoints, osVars, schedVars, gId, gFlag, gOrigin,
                 gLiveErr, gResult, gRead, gObs, gPaused, gExit, endVars,
                 histVars, waitVars>>
  /\ UNCHANGED <<resolveVars, toolVars>>

\* GoLive: the testing transition, its failure tolerated; after a success
\* the pause
GoLive_Testing(ok) ==
  /\ gpc = "testing"
  /\ gPre' = IF gId \in BroadcastIds THEN bstate[gId] ELSE "Unscheduled"
  /\ PlatformTransition(gId, "testing", ok)
  /\ gCalls' = Append(gCalls, <<"testing", gId, ok>>)
  /\ gTestErr' = ~ok
  /\ gSlept' = IF ok THEN GoLivePause ELSE 0
  /\ gpc' = "live"
  /\ UNCHANGED <<bound, endpoints, osVars, schedVars, gId, gFlag, gOrigin,
                 gLiveErr, gResult, gRead, gObs, gPaused, gExit, endVars,
                 histVars, waitVars>>
  /\ UNCHANGED <<resolveVars, toolVars>>

\* GoLive: the live transition and the return; cmdStreamStart exits
GoLive_Live(ok) ==
  /\ gpc = "live"
  /\ PlatformTransition(gId, "live", ok)
  /\ gCalls' = Append(gCalls, <<"live", gId, ok>>)
  /\ gLiveErr' = ~ok
  /\ gResult' = GoLiveResult(gTestErr, ~ok)
  /\ gExit' = ExitCode(gResult')
  /\ gpc' = "done"
  /\ taskLive' = IF gOrigin = "task" THEN taskLive \cup {gId} ELSE taskLive
  /\ UNCHANGED <<bound, endpoints, osVars, schedVars, gId, gFlag, gOrigin,
                 gPre, gTestErr, gRead, gObs, gPaused, gSlept, endVars,
                 lastSaved,
                 waitVars>>
  /\ UNCHANGED <<resolveVars, toolVars>>

\* the locals of a start process that is gone
StartReset ==
  /\ gpc' = "idle" /\ gId' = NoId /\ gFlag' = NoId /\ gOrigin' = "none"
  /\ gPre' = "Unscheduled" /\ gTestErr' = FALSE /\ gLiveErr' = FALSE
  /\ gResult' = "none" /\ gRead' = "none" /\ gObs' = "none"
  /\ gPaused' = FALSE /\ gSlept' = 0 /\ gCalls' = <<>> /\ gExit' = 0
  /\ UNCHANGED <<resolveVars, toolVars>>

\* the start process is gone, and its locals with it
StartExit ==
  /\ gpc = "done"
  /\ gOrigin # "wait"
  /\ StartReset
  /\ UNCHANGED <<platformVars, osVars, schedVars, endVars, histVars, waitVars>>

(* ------------------------------- EndStream ----------------------------- *)
\* what EndStream returns, given whether the complete call failed
EndStreamResult(err) == IF err THEN "EndStreamFailed" ELSE "nil"

\* cmdStreamEnd up to NewStreamScheduler: the identifier
cmdStreamEnd(idFlag, origin, readOk) ==
  /\ epc = "idle"
  /\ eOrigin' = origin
  /\ LET r == ResolveId(idFlag, readOk)
     IN /\ eFlag' = idFlag
        /\ eRead' = r.read
        /\ eId' = r.bid
        /\ IF r.bid = NoId
           THEN epc' = "done" /\ eResult' = "HandoffReadFailed" /\ eExit' = 1
           ELSE epc' = "init" /\ eResult' = "none" /\ eExit' = 0
  /\ UNCHANGED eCalls
  /\ UNCHANGED <<resolveVars, toolVars>>

\* the operator runs "stream end", with or without -id
EndManual(idFlag, readOk) ==
  /\ cmdStreamEnd(idFlag, "manual", readOk)
  /\ UNCHANGED <<platformVars, osVars, schedVars, startVars, histVars, waitVars>>

\* NewStreamScheduler in cmdStreamEnd: without a client the run ends
End_NewScheduler(ok) ==
  /\ epc = "init"
  /\ IF ok
     THEN epc' = "complete" /\ UNCHANGED <<eResult, eExit>>
     ELSE epc' = "done" /\ eResult' = "InitFailed" /\ eExit' = 1
  /\ UNCHANGED <<platformVars, osVars, schedVars, startVars, eId, eFlag,
                 eOrigin, eRead, eCalls, histVars, waitVars>>
  /\ UNCHANGED <<resolveVars, toolVars>>

\* EndStream: the complete transition and the return; cmdStreamEnd exits
EndStream_Complete(ok) ==
  /\ epc = "complete"
  /\ PlatformTransition(eId, "complete", ok)
  /\ eCalls' = Append(eCalls, <<"complete", eId, ok>>)
  /\ eResult' = EndStreamResult(~ok)
  /\ eExit' = ExitCode(eResult')
  /\ epc' = "done"
  /\ UNCHANGED <<bound, endpoints, osVars, schedVars, startVars, eId, eFlag,
                 eOrigin, eRead, histVars, waitVars>>
  /\ UNCHANGED <<resolveVars, toolVars>>

\* the end process is gone, and its locals with it
EndExit ==
  /\ epc = "done"
  /\ epc' = "idle" /\ eId' = NoId /\ eFlag' = NoId /\ eOrigin' = "none"
  /\ eResult' = "none" /\ eRead' = "none" /\ eCalls' = <<>> /\ eExit' = 0
  /\ UNCHANGED <<platformVars, osVars, schedVars, startVars, histVars, waitVars>>
  /\ UNCHANGED <<resolveVars, toolVars>>

(* ----------------------------- WaitAndGoLive --------------------------- *)
\* the values of the wait's variables while no wait is running
WaitReset ==
  /\ wpc' = "idle" /\ wId' = NoId /\ wDuration' = 0 /\ wElapsed' = 0
  /\ wDone' = FALSE /\ wTick' = FALSE /\ wCalls' = 0 /\ wVia' = "none"
  /\ wCalledAt' = 0 /\ wReported' = <<>>
  /\ UNCHANGED <<resolveVars, toolVars>>

\* s.GoLive(broadcastID) called from WaitAndGoLive
Wait_CallGoLive(id, via, at) ==
  /\ gpc' = "testing" /\ gId' = id /\ gOrigin' = "wait"
  /\ wCalls' = wCalls + 1
  /\ wVia' = via
  /\ wCalledAt' = at
  /\ wpc' = "golive"
  /\ UNCHANGED <<gFlag, gPre, gTestErr, gLiveErr, gResult, gRead, gObs,
                 gPaused, gSlept, gCalls, gExit>>
  /\ UNCHANGED <<resolveVars, toolVars>>

\* variant: only a target strictly in the past counts as past
IsPast_Strict(duration) == duration < 0

\* duration <= 0: the scheduled time is not in the future
IsPast(duration) == duration <= 0

\* WaitAndGoLive up to the select: a past target goes live at once, a
\* future one arms the ticker and the timer
WaitAndGoLive(id, duration) ==
  /\ wpc = "idle" /\ gpc = "idle"
  /\ wId' = id
  /\ wDuration' = duration
  /\ wElapsed' = 0
  /\ wDone' = FALSE /\ wTick' = FALSE
  /\ wReported' = <<>>
  /\ IF IsPast(duration)
     THEN Wait_CallGoLive(id, "immediate", 0)
     ELSE /\ wpc' = "select"
          /\ UNCHANGED <<wCalls, wVia, wCalledAt, startVars>>
  /\ UNCHANGED <<platformVars, osVars, schedVars, endVars, histVars>>
  /\ UNCHANGED <<resolveVars, toolVars>>

\* time passes while the wait is in its select: the timer of time.After
\* fires once the duration has elapsed, the ticker every TickPeriod; a tick
\* that finds the last one still in the channel is dropped
Wait_Clock ==
  /\ wpc = "select"
  /\ wElapsed < MaxElapsed
  /\ wElapsed' = wElapsed + 1
  /\ wDone' = (wDone \/ wElapsed' >= wDuration)
  /\ wTick' = (wTick \/ wElapsed' % TickPeriod = 0)
  /\ UNCHANGED <<platformVars, osVars, schedVars, startVars, endVars,
                 histVars, wpc, wId, wDuration, wCalls, wVia, wCalledAt,
                 wReported>>
  /\ UNCHANGED <<resolveVars, toolVars>>

\* time passes beyond the interval the clock is followed for: the deadline
\* has long passed, and the ticker goes on firing every TickPeriod for as
\* long as the wait is in its select
Wait_Late ==
  /\ wpc = "select"
  /\ wElapsed = MaxElapsed
  /\ wDone' = TRUE
  /\ wTick' = TRUE
  /\ UNCHANGED <<platformVars, osVars, schedVars, startVars, endVars,
                 histVars, wpc, wId, wDuration, wElapsed, wCalls, wVia,
                 wCalledAt, wReported>>
  /\ UNCHANGED <<resolveVars, toolVars>>

\* variant: the deadline is taken only when no tick is waiting
Wait_Done_YieldsToTick ==
  /\ wpc = "select"
  /\ wDone /\ ~wTick
  /\ wDone' = FALSE
  /\ Wait_CallGoLive(wId, "deadline", wElapsed)
  /\ UNCHANGED <<platformVars, osVars, schedVars, endVars, histVars, wId,
                 wDuration, wElapsed, wTick, wReported>>
  /\ UNCHANGED <<resolveVars, toolVars>>

\* case <-done: go live and return
Wait_Done ==
  /\ wpc = "select"
  /\ wDone
  /\ wDone' = FALSE
  /\ Wait_CallGoLive(wId, "deadline", wElapsed)
  /\ UNCHANGED <<platformVars, osVars, schedVars, endVars, histVars, wId,
                 wDuration, wElapsed, wTick, wReported>>
  /\ UNCHANGED <<resolveVars, toolVars>>

\* variant: a tick that finds no time left goes live itself
Wait_Tick_GoesLive ==
  /\ wpc = "select"
  /\ wTick
  /\ wTick' = FALSE
  /\ IF wDuration - wElapsed > 0
     THEN /\ wReported' = Append(wReported, wDuration - wElapsed)
          /\ UNCHANGED <<wpc, wCalls, wVia, wCalledAt, startVars>>
     ELSE /\ Wait_CallGoLive(wId, "tick", wElapsed)
          /\ UNCHANGED wReported
  /\ UNCHANGED <<platformVars, osVars, schedVars, endVars, histVars, wId,
                 wDuration, wElapsed, wDone>>
  /\ UNCHANGED <<resolveVars, toolVars>>

\* case <-ticker.C: report the time that remains, if any, and select again
Wait_Tick ==
  /\ wpc = "select"
  /\ wTick
  /\ wTick' = FALSE
  /\ wReported' = IF wDuration - wElapsed > 0
                  THEN Append(wReported, wDuration - wElapsed)
                  ELSE wReported
  /\ UNCHANGED <<platformVars, osVars, schedVars, startVars, endVars,
                 histVars, wpc, wId, wDuration, wElapsed, wDone, wCalls,
                 wVia, wCalledAt>>
  /\ UNCHANGED <<resolveVars, toolVars>>

\* variant: a failed GoLive is called again instead of ending the process
Wait_Return_Retry ==
  /\ wpc = "golive"
  /\ gpc = "done" /\ gOrigin = "wait"
  /\ IF gResult = "nil"
     THEN /\ wpc' = "returned"
          /\ UNCHANGED <<startVars, wCalls, wVia, wCalledAt>>
     ELSE Wait_CallGoLive(wId, wVia, wCalledAt)
  /\ UNCHANGED <<platformVars, osVars, schedVars, endVars, histVars, wId,
                 wDuration, wElapsed, wDone, wTick, wReported>>
  /\ UNCHANGED <<resolveVars, toolVars>>

\* GoLive has returned to WaitAndGoLive: return, or log.Fatalf
Wait_Return ==
  /\ wpc = "golive"
  /\ gpc = "done" /\ gOrigin = "wait"
  /\ wpc' = IF gResult = "nil" THEN "returned" ELSE "fatal"
  /\ UNCHANGED <<platformVars, osVars, schedVars, startVars, endVars,
                 histVars, wId,
                 wDuration, wElapsed, wDone, wTick, wCalls, wVia, wCalledAt,
                 wReported>>
  /\ UNCHANGED <<resolveVars, toolVars>>

\* the process that called WaitAndGoLive is gone, and its locals with it
WaitExit ==
  /\ wpc \in {"returned", "fatal"}
  /\ WaitReset
  /\ StartReset
  /\ UNCHANGED <<platformVars, osVars, schedVars, endVars, histVars>>

(* --------------------------------- cron -------------------------------- *)
\* the crontab lines of a task that match time t
Due(taskName, t) ==
  {i \in 1..Len(crontab) :
     crontab[i].task = taskName /\ crontab[i].time = t}

\* the clock reaches the next instant and cron starts the lines that match
\* it; the runs started at earlier instants are over by then
CronMinute ==
  /\ now < MaxTime
  /\ gpc = "idle" /\ epc = "idle"
  /\ now' = now + 1
  /\ IF Due(StartTaskName, now + 1) # {}
     THEN \E launchOk \in BOOLEAN :
            cmdStreamStart(
              crontab[CHOOSE i \in Due(StartTaskName, now + 1) : TRUE].id,
              "task", TRUE, FALSE, launchOk)
     ELSE UNCHANGED startVars
  /\ IF Due(EndTaskName, now + 1) # {}
     THEN cmdStreamEnd(
            crontab[CHOOSE i \in Due(EndTaskName, now + 1) : TRUE].id,
            "task", TRUE)
     ELSE UNCHANGED endVars
  /\ UNCHANGED <<platformVars, handoff, crontab, goos, schedVars, histVars,
                 waitVars>>
  /\ UNCHANGED <<resolveVars, toolVars>>

(* ----------------------------- specification --------------------------- *)
\* the operator types one command at a time
OperatorIdle ==
  spc = "idle" /\ gpc = "idle" /\ epc = "idle" /\ wpc = "idle"

\* the flags of "stream schedule" left at their defaults: SUNRISE, -30 and
\* +30 minutes
DefaultFlags == [time |-> "SUNRISE", startOffset |-> -1, endOffset |-> 1]

\* Schedule runs alone, one after the other, on either system and with any
\* endpoints on the channel.
NextSched ==
  \/ \E sun \in SunTimesSet :
       SchedBegin(DefaultFlags.time, 0, DefaultFlags.startOffset,
                  DefaultFlags.endOffset, sun)
  \/ \E ok \in BOOLEAN : Sched_NewScheduler(ok)
  \/ \E ok \in BOOLEAN : SS_BroadcastInsert(ok)
  \/ \E ok \in BOOLEAN : SS_StreamList(ok)
  \/ \E ok \in BOOLEAN : SS_StreamInsert(ok)
  \/ \E ok \in BOOLEAN : SS_Bind(ok)
  \/ \E outcome \in WriteOutcomes : Sched_WriteHandoff(outcome)
  \/ \E outcome \in {"ok", "createFailed", "deleteFailed"} :
       Sched_RegisterStart(outcome)
  \/ \E outcome \in {"ok", "createFailed", "deleteFailed"} :
       Sched_RegisterEnd(outcome)
  \/ SchedExit

SpecSched == Init /\ [][NextSched]_vars

\* the machine of the operator-driven runs: a Unix system, and a channel
\* that holds an endpoint of another title, so that the first schedule run
\* makes the endpoint of the fixed title and the later ones find it
InitOperator ==
  Init /\ goos = "linux" /\ endpoints = <<OldOther>> /\ rLocal = ZoneUTC

\* Operator-driven runs: schedule, start and end typed in any order, any
\* number of times, with any identifier; cron stays out of the picture.
Next ==
  \/ /\ OperatorIdle
     /\ \E sun \in SunTimesSet :
          SchedBegin(DefaultFlags.time, 0, DefaultFlags.startOffset,
                     DefaultFlags.endOffset, sun)
  \/ \E ok \in BOOLEAN : Sched_NewScheduler(ok)
  \/ \E ok \in BOOLEAN : SS_BroadcastInsert(ok)
  \/ \E ok \in BOOLEAN : SS_StreamList(ok)
  \/ \E ok \in BOOLEAN : SS_StreamInsert(ok)
  \/ \E ok \in BOOLEAN : SS_Bind(ok)
  \/ \E outcome \in WriteOutcomes : Sched_WriteHandoff(outcome)
  \/ \E outcome \in {"ok", "createFailed", "deleteFailed"} :
       Sched_RegisterStart(outcome)
  \/ \E outcome \in {"ok", "createFailed", "deleteFailed"} :
       Sched_RegisterEnd(outcome)
  \/ SchedExit
  \/ /\ OperatorIdle
     /\ \E idFlag \in {NoId} \cup BroadcastIds, readOk, skipOBS,
           launchOk \in BOOLEAN :
          StartManual(idFlag, readOk, skipOBS, launchOk)
  \/ \E ok \in BOOLEAN : Start_NewScheduler(ok)
  \/ \E ok \in BOOLEAN : GoLive_Testing(ok)
  \/ \E ok \in BOOLEAN : GoLive_Live(ok)
  \/ StartExit
  \/ /\ OperatorIdle
     /\ \E idFlag \in {NoId} \cup BroadcastIds, readOk \in BOOLEAN :
          EndManual(idFlag, readOk)
  \/ \E ok \in BOOLEAN : End_NewScheduler(ok)
  \/ \E ok \in BOOLEAN : EndStream_Complete(ok)
  \/ EndExit

Spec == InitOperator /\ [][Next]_vars

\* Unattended runs: the operator schedules with any flags, cron fires the
\* two registered tasks at their minutes, the three processes overlap.
NextCron ==
  \/ \E flag \in TimeFlags, explicit \in 0..MaxTime, so \in Offsets,
        eo \in Offsets, sun \in SunTimesSet :
       SchedBegin(flag, explicit, so, eo, sun)
  \/ \E ok \in BOOLEAN : Sched_NewScheduler(ok)
  \/ \E ok \in BOOLEAN : SS_BroadcastInsert(ok)
  \/ \E ok \in BOOLEAN : SS_StreamList(ok)
  \/ \E ok \in BOOLEAN : SS_StreamInsert(ok)
  \/ \E ok \in BOOLEAN : SS_Bind(ok)
  \/ \E outcome \in WriteOutcomes : Sched_WriteHandoff(outcome)
  \/ \E outcome \in {"ok", "createFailed", "deleteFailed"} :
       Sched_RegisterStart(outcome)
  \/ \E outcome \in {"ok", "createFailed", "deleteFailed"} :
       Sched_RegisterEnd(outcome)
  \/ SchedExit
  \/ \E ok \in BOOLEAN : Start_NewScheduler(ok)
  \/ \E ok \in BOOLEAN : GoLive_Testing(ok)
  \/ \E ok \in BOOLEAN : GoLive_Live(ok)
  \/ StartExit
  \/ \E ok \in BOOLEAN : End_NewScheduler(ok)
  \/ \E ok \in BOOLEAN : EndStream_Complete(ok)
  \/ EndExit
  \/ CronMinute

\* the machine of the unattended runs: cron is the registry of a Unix
\* system; the tasks carry the identifier, the file starts out missing
InitCron == InitOperator /\ handoff = NoFile

SpecCron == InitCron /\ [][NextCron]_vars

\* the state in which the attached wait is entered: ScheduleStream has
\* returned broadcast 1, bound to the endpoint of the fixed title
InitWait ==
  /\ bstate = [b \in BroadcastIds |-> IF b = 1 THEN "Bound" ELSE "Unscheduled"]
  /\ bound = [b \in BroadcastIds |-> IF b = 1 THEN OldFixed.id ELSE NoId]
  /\ endpoints = <<OldFixed>>
  /\ InitLocal /\ goos = "linux" /\ handoff = NoFile
  /\ InitResolver /\ rLocal = ZoneUTC /\ InitTools

\* Attached runs: WaitAndGoLive is called with any identifier and any
\* target, in the past or ahead; the clock, the timer and the ticker move
\* on their own while it waits.
NextWait ==
  \/ \E id \in BroadcastIds, duration \in (0 - 1)..MaxWait :
       WaitAndGoLive(id, duration)
  \/ Wait_Clock
  \/ Wait_Done
  \/ Wait_Tick
  \/ \E ok \in BOOLEAN : GoLive_Testing(ok)
  \/ \E ok \in BOOLEAN : GoLive_Live(ok)
  \/ Wait_Return
  \/ WaitExit

SpecWait == InitWait /\ [][NextWait]_vars

\* The attached run followed without end: the ticker goes on firing after
\* the deadline. Time passes; a select with a ready case takes a case, and
\* the deadline, once ready, stays ready until it is taken; the platform
\* answers the calls of GoLive; a function that has been returned to goes
\* on.
NextWaitOn == NextWait \/ Wait_Late
WaitFairness ==
  /\ WF_vars(Wait_Clock)
  /\ WF_vars(Wait_Done)
  /\ WF_vars(\E ok \in BOOLEAN : GoLive_Testing(ok))
  /\ WF_vars(\E ok \in BOOLEAN : GoLive_Live(ok))
  /\ WF_vars(Wait_Return)
SpecWaitLive == InitWait /\ [][NextWaitOn]_vars /\ WaitFairness

\* the machine of the runs that resolve times: a Unix system in any time
\* zone, no file; the channel has an endpoint of another title and, bound
\* to it, broadcasts of earlier days that are over: one identifier is left
InitResolve ==
  /\ bstate = [b \in BroadcastIds |->
                 IF b < MaxBroadcasts THEN "Ended" ELSE "Unscheduled"]
  /\ bound = [b \in BroadcastIds |->
                IF b < MaxBroadcasts THEN OldOther.id ELSE NoId]
  /\ endpoints = <<OldOther>>
  /\ InitLocal /\ goos = "linux" /\ handoff = NoFile
  /\ InitResolver /\ InitTools

\* Runs that resolve times: "stream schedule" with any --time, offsets and
\* city and any outcome of the lookups, carried on to its end, and the
\* sunrise and sunset subcommands.
NextResolve ==
  \/ /\ rOut.cmd = "none"
     /\ \E time \in TimeStrings, city \in BOOLEAN,
           startOffset \in StartOffsetFlags, endOffset \in EndOffsetFlags,
           loc \in LookupOutcomes, sunOutcome \in LookupOutcomes,
           sun \in SunTimesOfDay :
          cmdStreamSchedule(time, city, startOffset, endOffset, loc,
                            sunOutcome, sun)
  \/ \E ok \in BOOLEAN : Sched_NewScheduler(ok)
  \/ \E ok \in BOOLEAN : SS_BroadcastInsert(ok)
  \/ \E ok \in BOOLEAN : SS_StreamList(ok)
  \/ \E ok \in BOOLEAN : SS_StreamInsert(ok)
  \/ \E ok \in BOOLEAN : SS_Bind(ok)
  \/ \E outcome \in WriteOutcomes : Sched_WriteHandoff(outcome)
  \/ \E outcome \in {"ok", "createFailed", "deleteFailed"} :
       Sched_RegisterStart(outcome)
  \/ \E outcome \in {"ok", "createFailed", "deleteFailed"} :
       Sched_RegisterEnd(outcome)
  \/ SchedExit
  \/ /\ spc = "idle"
     /\ \E event \in {"sunrise", "sunset"}, city \in BOOLEAN,
           offset \in OffsetFlags, loc \in LookupOutcomes,
           sunOutcome \in LookupOutcomes, sun \in SunTimesOfDay :
          cmdSun(event, city, offset, loc, sunOutcome, sun)
  \/ SunExit

SpecResolve == InitResolve /\ [][NextResolve]_vars

(* ------------------ wind direction: the conversion -------------------- *)
\* one call of degrees_to_cardinal
Convert ==
  /\ cOut = "none"
  /\ cDeg # LuaNil
  /\ cOut' = degrees_to_cardinal(cDeg)
  /\ UNCHANGED <<platformVars, osVars, schedVars, startVars, endVars,
                 histVars, waitVars, resolveVars, weatherVars,
                 versionVars, updaterVars, cDeg>>

\* the result is read and the next field is converted
Reconvert(v) ==
  /\ cOut # "none"
  /\ cDeg.type = "string"
  /\ cDeg' = v /\ cOut' = "none"
  /\ UNCHANGED <<platformVars, osVars, schedVars, startVars, endVars,
                 histVars, waitVars, resolveVars, weatherVars,
                 versionVars, updaterVars>>

InitConvert ==
  /\ InitPlatform /\ endpoints = <<OldOther>>
  /\ InitLocal /\ goos = "linux" /\ handoff = NoFile
  /\ InitResolver /\ rLocal = ZoneUTC
  /\ InitScript /\ InitVersions /\ InitUpdater
  /\ cDeg \in DegreeValues /\ cOut = "none"

NextConvert ==
  \/ Convert
  \/ \E v \in DegreeFields : Reconvert(v)

SpecConvert == InitConvert /\ [][NextConvert]_vars

(* -------------------- weather script (Lua): the steps ------------------ *)
\* update_text_source: the text of a source that is found is replaced
update_text_source(found, old, text) == IF found THEN text ELSE old

\* the seconds the clock may move on between two readings within one call
ReadLags == {0, 1}

\* the test of fetch_weather_data on the minutes it has computed
IsOffline(current_minutes) ==
  current_minutes < begin_at \/ current_minutes > end_at

\* current_minutes of fetch_weather_data: os.date("%H") and os.date("%M") are
\* two readings of the clock, the hour from the first and the minute from
\* the second
current_minutes(first, second) ==
  HourOf(first) * MinutesPerHour + MinuteOf(second)

\* fetch_weather_data, called with the source names as they are then. The
\* clock is read for the hour, lag seconds later for the minute, and then
\* for the date/time text. The result is the two texts and the clock when
\* the call returns.
fetch_weather_data(windName, dateName, curl, lag, windFound, dateFound) ==
  LET offline == IsOffline(current_minutes(wxClock, wxClock + lag))
      fields == curl.fields
      wind_output ==
        IF offline THEN PlaceholderText
        ELSE WindText(StripZero(FieldOr(fields, 3)),
                      StripZero(FieldOr(fields, 4)),
                      degrees_to_cardinal(LuaString(FieldOr(fields, 5))))
      datetime_output == DateText(wxClock + lag, offline)
      outcome == IF windName = "" /\ dateName = "" THEN "noSources"
                 ELSE IF ~curl.handle THEN "noCurl"
                 ELSE IF ~curl.data THEN "noData"
                 ELSE "ok"
      error_msg == IF outcome = "noCurl"
                   THEN ErrorText("Error: Could not execute curl command")
                   ELSE ErrorText("Error: Could not fetch data")
  IN [wind |-> IF outcome = "noSources" \/ windName = "" THEN wxWind
               ELSE update_text_source(windFound, wxWind,
                      IF outcome = "ok" THEN wind_output ELSE error_msg),
      date |-> IF outcome = "noSources" \/ dateName = "" THEN wxDate
               ELSE update_text_source(dateFound, wxDate,
                      IF outcome = "ok" THEN datetime_output
                      ELSE error_msg),
      clock |-> IF outcome = "ok" THEN wxClock + lag ELSE wxClock]

\* the last two entries of a sequence
LastTwo(s) == IF Len(s) <= 2 THEN s ELSE SubSeq(s, Len(s) - 1, Len(s))

\* script_update: the settings are read, and the data is fetched when a
\* source is named
script_update(windName, dateName, interval, curl, lag, wFound, dFound) ==
  /\ wxWindName' = windName /\ wxDateName' = dateName
  /\ wxInterval' = interval
  /\ IF windName # "" \/ dateName # ""
     THEN LET f == fetch_weather_data(windName, dateName, curl, lag,
                                      wFound, dFound)
          IN wxWind' = f.wind /\ wxDate' = f.date /\ wxClock' = f.clock
     ELSE UNCHANGED <<wxWind, wxDate, wxClock>>
  /\ UNCHANGED <<wxLast, wxTimer>>
  /\ UNCHANGED <<platformVars, osVars, schedVars, startVars, endVars,
                 histVars, waitVars, resolveVars, cardinalVars,
                 versionVars, updaterVars>>

\* variant: the timer does not note when it fetched
check_update_Forgets(curl, lag, windFound, dateFound) ==
  LET current_time == wxClock
      f == fetch_weather_data(wxWindName, wxDateName, curl, lag,
                              windFound, dateFound)
  IN /\ current_time - wxLast >= wxInterval
     /\ wxWind' = f.wind /\ wxDate' = f.date /\ wxClock' = f.clock
     /\ wxTimer' = LastTwo(Append(wxTimer, current_time))
     /\ UNCHANGED <<wxLast, wxInterval, wxWindName, wxDateName>>
     /\ UNCHANGED <<platformVars, osVars, schedVars, startVars, endVars,
                    histVars, waitVars, resolveVars, cardinalVars,
                 versionVars, updaterVars>>

\* check_update, the timer callback: os.time() is read once, and when
\* update_interval seconds have passed since last_update the data is
\* fetched and last_update becomes that reading. A callback that comes
\* earlier changes nothing.
check_update(curl, lag, windFound, dateFound) ==
  LET current_time == wxClock
      f == fetch_weather_data(wxWindName, wxDateName, curl, lag,
                              windFound, dateFound)
  IN /\ current_time - wxLast >= wxInterval
     /\ wxWind' = f.wind /\ wxDate' = f.date /\ wxClock' = f.clock
     /\ wxLast' = current_time
     /\ wxTimer' = LastTwo(Append(wxTimer, current_time))
     /\ UNCHANGED <<wxInterval, wxWindName, wxDateName>>
     /\ UNCHANGED <<platformVars, osVars, schedVars, startVars, endVars,
                    histVars, waitVars, resolveVars, cardinalVars,
                 versionVars, updaterVars>>

\* update_now_clicked: the button fetches at once
update_now_clicked(curl, lag, windFound, dateFound) ==
  LET f == fetch_weather_data(wxWindName, wxDateName, curl, lag,
                              windFound, dateFound)
  IN /\ wxWind' = f.wind /\ wxDate' = f.date /\ wxClock' = f.clock
     /\ UNCHANGED <<wxLast, wxTimer, wxInterval, wxWindName, wxDateName>>
     /\ UNCHANGED <<platformVars, osVars, schedVars, startVars, endVars,
                    histVars, waitVars, resolveVars, cardinalVars,
                 versionVars, updaterVars>>

\* the clock moves on between two callbacks, not beyond the reading until
TimePasses(d, until) ==
  /\ wxClock + d <= until
  /\ wxClock' = wxClock + d
  /\ UNCHANGED <<wxLast, wxInterval, wxWindName, wxDateName, wxWind,
                 wxDate, wxTimer>>
  /\ UNCHANGED <<platformVars, osVars, schedVars, startVars, endVars,
                 histVars, waitVars, resolveVars, cardinalVars,
                 versionVars, updaterVars>>

\* the settings tried: both sources named, the wind source alone, none
SourceSettings ==
  {<<"Wind Data", "Date Time">>, <<"Wind Data", "">>, <<"", "">>}

\* The timer of the script, followed for MaxSeconds from noon: the settings
\* are read, the timer calls back and the button is pressed in any order
\* while the clock runs. curl gives a full line or nothing at all.
MaxSeconds == 24
ClockSteps == {1, 10}
TimerCurl == {c \in CurlOutcomes : c.fields = Line_Full \/ ~c.handle}

InitTimer ==
  /\ InitPlatform /\ endpoints = <<OldOther>>
  /\ InitLocal /\ goos = "linux" /\ handoff = NoFile
  /\ InitResolver /\ rLocal = ZoneUTC
  /\ InitTools

TimerEnd == ClockAt(12, 0, 0) + MaxSeconds
NextTimer ==
  \/ \E names \in SourceSettings, interval \in UpdateIntervals,
        curl \in TimerCurl, lag \in ReadLags :
        /\ wxClock + lag <= TimerEnd
        /\ script_update(names[1], names[2], interval, curl, lag, TRUE, TRUE)
  \/ \E curl \in TimerCurl, lag \in ReadLags :
        /\ wxClock + lag <= TimerEnd
        /\ check_update(curl, lag, TRUE, TRUE)
  \/ \E curl \in TimerCurl, lag \in ReadLags :
        /\ wxClock + lag <= TimerEnd
        /\ update_now_clicked(curl, lag, TRUE, TRUE)
  \/ \E d \in ClockSteps : TimePasses(d, TimerEnd)

SpecTimer == InitTimer /\ [][NextTimer]_vars

\* The script around the ends of its window: it is loaded two seconds
\* before a minute ends and followed for MaxDrift seconds, with every
\* outcome of curl and with sources that are there or not.
StartClocks ==
  {ClockAt(6, 29, 58), ClockAt(6, 59, 58), ClockAt(17, 30, 58),
   ClockAt(17, 59, 58)}
MaxDrift == 3

InitWeather ==
  /\ InitPlatform /\ endpoints = <<OldOther>>
  /\ InitLocal /\ goos = "linux" /\ handoff = NoFile
  /\ InitResolver /\ rLocal = ZoneUTC
  /\ InitCardinal /\ InitVersions /\ InitUpdater
  /\ wxClock \in StartClocks
  /\ wxLast = 0 /\ wxInterval = DefaultInterval
  /\ wxWindName = "" /\ wxDateName = ""
  /\ wxWind = NoText /\ wxDate = NoText
  /\ wxTimer = <<>>

\* the end of the run that began at one of the start clocks
WindowEnd ==
  (CHOOSE s \in StartClocks : s <= wxClock /\ wxClock <= s + MaxDrift)
    + MaxDrift
NextWeather ==
  \/ \E names \in SourceSettings, curl \in CurlOutcomes, lag \in ReadLags,
        found \in BOOLEAN :
        /\ wxClock + lag <= WindowEnd
        /\ script_update(names[1], names[2], DefaultInterval, curl, lag,
                         found, found)
  \/ \E curl \in CurlOutcomes, lag \in ReadLags, found \in BOOLEAN :
        /\ wxClock + lag <= WindowEnd
        /\ check_update(curl, lag, found, found)
  \/ \E curl \in CurlOutcomes, lag \in ReadLags, found \in BOOLEAN :
        /\ wxClock + lag <= WindowEnd
        /\ update_now_clicked(curl, lag, found, found)
  \/ TimePasses(1, WindowEnd)

SpecWeather == InitWeather /\ [][NextWeather]_vars

(* ------------------------- the registry alone -------------------------- *)
\* the crontab of the user before a registration: up to two lines, each a
\* line of the user's own or a task of an earlier schedule run
EarlierLines ==
  {OwnJob, OwnComment, CronEntry(StartTaskName, "start", 1, 0),
   CronEntry(EndTaskName, "end", 1, 1)}
InitCrontabs ==
  {<<>>} \cup {<<a>> : a \in EarlierLines}
         \cup {<<a, b>> : a \in EarlierLines, b \in EarlierLines}

\* one registration on a Unix machine, as cmdStreamSchedule asks for it
RegisterUnix(taskName, cmd, id, runTime, listOk, setOk) ==
  /\ crontab' = createUnixTaskRun(crontab, taskName, cmd, id, runTime,
                                  listOk, setOk).tasks
  /\ UNCHANGED <<platformVars, handoff, now, goos, schedVars, startVars,
                 endVars, histVars, waitVars, resolveVars, toolVars>>

InitRegistry ==
  /\ InitPlatform /\ endpoints = <<OldOther>>
  /\ handoff = NoFile /\ now = 0 /\ goos = "linux"
  /\ crontab \in InitCrontabs
  /\ InitProcesses
  /\ InitResolver /\ rLocal = ZoneUTC /\ InitTools

NextRegistry ==
  \/ \E id \in BroadcastIds, runTime \in 0..MaxTime,
        listOk \in BOOLEAN, setOk \in BOOLEAN :
        RegisterUnix(StartTaskName, "start", id, runTime, listOk, setOk)
  \/ \E id \in BroadcastIds, runTime \in 0..MaxTime,
        listOk \in BOOLEAN, setOk \in BOOLEAN :
        RegisterUnix(EndTaskName, "end", id, runTime, listOk, setOk)

SpecRegistry == InitRegistry /\ [][NextRegistry]_vars

(* ------------- the controller, twice: part_000 and README.md ----------- *)
\* The methods of the controller as functions of the platform's outcomes:
\* the calls issued in order, and what is returned. part_000 holds the
\* version the launcher runs, README.md the one it quotes.

\* the platform calls, with the arguments that tell them apart
TransitionCall(target, id) ==
  [call |-> "broadcasts.transition", target |-> target, id |-> id]
BroadcastInsertCall(title) == [call |-> "broadcasts.insert", title |-> title]
StreamListCall == [call |-> "streams.list"]
StreamInsertCall(title) == [call |-> "streams.insert", title |-> title]
BindCall(id, stream) ==
  [call |-> "broadcasts.bind", id |-> id, stream |-> stream]

\* GoLive of part_000: the testing call, a pause when it succeeded, the
\* live call, whose error alone is returned
GoLive(broadcastID, testOk, liveOk) ==
  [calls |-> <<TransitionCall("testing", broadcastID),
               TransitionCall("live", broadcastID)>>,
   slept |-> IF testOk THEN GoLivePause ELSE 0,
   result |-> GoLiveResult(~testOk, ~liveOk)]

\* time.Sleep(2 * time.Second) in GoLive of README.md, in seconds
README_GoLivePause == 2

\* variant: GoLive of README.md returns when the testing call fails
README_GoLive_StopsOnError(broadcastID, testOk, liveOk) ==
  IF testOk
  THEN [calls |-> <<TransitionCall("testing", broadcastID),
                    TransitionCall("live", broadcastID)>>,
        slept |-> README_GoLivePause,
        result |-> IF liveOk THEN "nil" ELSE "GoLiveFailed"]
  ELSE [calls |-> <<TransitionCall("testing", broadcastID)>>,
        slept |-> 0, result |-> "GoLiveFailed"]

\* GoLive of README.md
README_GoLive(broadcastID, testOk, liveOk) ==
  LET testing == <<TransitionCall("testing", broadcastID)>>
      slept == IF testOk THEN README_GoLivePause ELSE 0
      live == Append(testing, TransitionCall("live", broadcastID))
  IN  IF liveOk
      THEN [calls |-> live, slept |-> slept, result |-> "nil"]
      ELSE [calls |-> live, slept |-> slept, result |-> "GoLiveFailed"]

\* the countdown lines printed by the first ticks of a wait of duration:
\* a tick prints when time remains at the moment it is handled
Reports(duration, ticks) ==
  Cardinality({k \in 1..ticks : duration - k * TickPeriod > 0})

\* WaitAndGoLive of part_000 as one run: the timer armed, the countdown
\* lines, the calls of its GoLive and how the run ends
WaitAndGoLiveRun(broadcastID, duration, ticks, testOk, liveOk) ==
  LET g == GoLive(broadcastID, testOk, liveOk)
      end == IF g.result = "nil" THEN "returned" ELSE "fatal"
  IN  IF IsPast(duration)
      THEN [timer |-> 0, reports |-> 0, calls |-> g.calls,
            slept |-> g.slept, result |-> end]
      ELSE [timer |-> duration, reports |-> Reports(duration, ticks),
            calls |-> g.calls, slept |-> g.slept, result |-> end]

\* WaitAndGoLive of README.md as one run
README_WaitAndGoLive(broadcastID, duration, ticks, testOk, liveOk) ==
  LET g == README_GoLive(broadcastID, testOk, liveOk)
      end == IF g.result # "nil" THEN "fatal" ELSE "returned"
  IN  IF duration <= 0
      THEN [timer |-> 0, reports |-> 0, calls |-> g.calls,
            slept |-> g.slept, result |-> end]
      ELSE [timer |-> duration,
            reports |-> Cardinality({k \in 1..ticks :
                                       duration - k * TickPeriod > 0}),
            calls |-> g.calls, slept |-> g.slept, result |-> end]

\* what ScheduleStream returns: the calls it made, the error, the pair
Returned(calls, err, ret) == [calls |-> calls, err |-> err, ret |-> ret]

\* ScheduleStream of part_000: the broadcast is made, the endpoints are
\* listed, the one of the fixed title is taken or made, the two are bound
ScheduleStream(title, items, o) ==
  LET c1 == <<BroadcastInsertCall(title)>>
      c2 == Append(c1, StreamListCall)
      found == FindStream(items)
      c3 == IF found = NilStream
            THEN Append(c2, StreamInsertCall(newStream.title))
            ELSE c2
      stream == IF found = NilStream
                THEN InsertedStream(newStream, StreamResponse(newStream))
                ELSE found
      c4 == Append(c3, BindCall(NextBroadcastId, stream.id))
  IN  IF ~o.insert THEN Returned(c1, "BroadcastCreateFailed", NilResult)
      ELSE IF ~o.list THEN Returned(c2, "StreamLookupFailed", NilResult)
      ELSE IF found = NilStream /\ ~o.stream
           THEN Returned(c3, "StreamCreateFailed", NilResult)
      ELSE IF ~o.bind THEN Returned(c4, "BindFailed", NilResult)
      ELSE Returned(c4, "nil", ScheduleResult(NextBroadcastId, stream))

\* fmt.Sprintf("%s - Stream", title) in ScheduleStream of README.md
README_StreamTitle(title) == title \o " - Stream"

\* ScheduleStream of README.md: the broadcast is made, an endpoint titled
\* after it is made, the two are bound
README_ScheduleStream(title, o) ==
  LET c1 == <<BroadcastInsertCall(title)>>
      request == [id |-> NoId, title |-> README_StreamTitle(title),
                  key |-> <<>>]
      c2 == Append(c1, StreamInsertCall(request.title))
      streamResponse == StreamResponse(request)
      c3 == Append(c2, BindCall(NextBroadcastId, streamResponse.id))
  IN  IF ~o.insert THEN Returned(c1, "BroadcastCreateFailed", NilResult)
      ELSE IF ~o.stream THEN Returned(c2, "StreamCreateFailed", NilResult)
      ELSE IF ~o.bind THEN Returned(c3, "BindFailed", NilResult)
      ELSE Returned(c3, "nil",
                    ScheduleResult(NextBroadcastId, streamResponse))

\* the outcomes of the four platform calls of a schedule run
ScheduleOutcomes ==
  [insert : BOOLEAN, list : BOOLEAN, stream : BOOLEAN, bind : BOOLEAN]
\* the titles tried: the station's, and the default of a day
Titles == {"Marshall Weather Station", "Marshall WX"}
\* ticker firings handled before the timer's: none up to one too many
TicksOf(duration) ==
  IF duration <= 0 THEN {0} ELSE 0..(duration \div TickPeriod + 1)

\* both versions of GoLive are given the same identifier and outcomes
CallGoLive(id, testOk, liveOk) ==
  /\ vIn' = [method |-> "GoLive", id |-> id, testOk |-> testOk,
             liveOk |-> liveOk]
  /\ vNew' = GoLive(id, testOk, liveOk)
  /\ vOld' = README_GoLive(id, testOk, liveOk)
  /\ UNCHANGED <<platformVars, osVars, schedVars, startVars, endVars,
                 histVars, waitVars, resolveVars, cardinalVars, weatherVars,
                 updaterVars>>

\* both versions of WaitAndGoLive
CallWaitAndGoLive(id, duration, ticks, testOk, liveOk) ==
  /\ vIn' = [method |-> "WaitAndGoLive", id |-> id, duration |-> duration,
             ticks |-> ticks, testOk |-> testOk, liveOk |-> liveOk]
  /\ vNew' = WaitAndGoLiveRun(id, duration, ticks, testOk, liveOk)
  /\ vOld' = README_WaitAndGoLive(id, duration, ticks, testOk, liveOk)
  /\ UNCHANGED <<platformVars, osVars, schedVars, startVars, endVars,
                 histVars, waitVars, resolveVars, cardinalVars, weatherVars,
                 updaterVars>>

\* both versions of ScheduleStream, on the same channel
CallScheduleStream(title, o) ==
  /\ vIn' = [method |-> "ScheduleStream", title |-> title, o |-> o]
  /\ vNew' = ScheduleStream(title, endpoints, o)
  /\ vOld' = README_ScheduleStream(title, o)
  /\ UNCHANGED <<platformVars, osVars, schedVars, startVars, endVars,
                 histVars, waitVars, resolveVars, cardinalVars, weatherVars,
                 updaterVars>>

\* a channel with any endpoints, a machine on which nothing runs
InitCompare ==
  /\ InitPlatform /\ endpoints \in InitEndpoints
  /\ InitLocal /\ goos = "linux" /\ handoff = NoFile
  /\ InitResolver /\ rLocal = ZoneUTC /\ InitTools

NextCompare ==
  \/ \E id \in BroadcastIds, testOk \in BOOLEAN, liveOk \in BOOLEAN :
       CallGoLive(id, testOk, liveOk)
  \/ \E id \in BroadcastIds, duration \in (0 - 1)..MaxWait,
        testOk \in BOOLEAN, liveOk \in BOOLEAN :
       \E ticks \in TicksOf(duration) :
         CallWaitAndGoLive(id, duration, ticks, testOk, liveOk)
  \/ \E title \in Titles, o \in ScheduleOutcomes :
       CallScheduleStream(title, o)

SpecCompare == InitCompare /\ [][NextCompare]_vars

(* ------------------------------ self-update ---------------------------- *)
\* runtime.GOARCH of the build
GOARCH == "amd64"
\* assetName of Apply: launcher-<os>-<arch>, with .exe on Windows
AssetName(os) ==
  LET assetName == "launcher-" \o os \o "-" \o GOARCH
  IN  IF os = "windows" THEN assetName \o ".exe" ELSE assetName

\* an asset of a release, and the releases the API may answer with: any
\* tag, with no asset, the asset of Linux, or the assets of both systems
Asset(os) == [Name |-> AssetName(os),
              BrowserDownloadURL |-> "https://github.com/" \o AssetName(os)]
AssetLists == {<<>>, <<Asset("linux")>>, <<Asset("windows"), Asset("linux")>>}
Releases == [TagName : Tags, Assets : AssetLists]

\* downloadURL of Apply: the URL of the first asset of that name, or ""
RECURSIVE DownloadURL(_, _)
DownloadURL(assets, assetName) ==
  IF assets = <<>> THEN ""
  ELSE IF Head(assets).Name = assetName THEN Head(assets).BrowserDownloadURL
       ELSE DownloadURL(Tail(assets), assetName)

\* os.Rename: the file moves when the call succeeds; it cannot succeed
\* without a file to move
Rename(files, from, to, ok) ==
  IF ok /\ files[from] # Absent
  THEN [files EXCEPT ![to] = files[from], ![from] = Absent]
  ELSE files

\* the outcomes of os.Create, http.Get, io.Copy and the two os.Rename
ApplyOutcomes ==
  [create : BOOLEAN, get : BOOLEAN, copy : BOOLEAN, renameOld : BOOLEAN,
   renameNew : BOOLEAN]

AlreadyUpToDate == "Already up to date"
Applied(tag, files, ops, ret) ==
  [tag |-> tag, files |-> files, ops |-> ops, ret |-> ret]

\* variant: Apply returns nil without noting the tag of the release
ApplyTo_KeepsTag(tag, files, os, release, o) ==
  IF release.TagName = tag THEN Applied(tag, files, <<>>, AlreadyUpToDate)
  ELSE IF o.create /\ o.get /\ o.copy
            /\ DownloadURL(release.Assets, AssetName(os)) # ""
       THEN Applied(tag, files, <<"Create", "Get", "Copy", "Rename">>, "nil")
       ELSE Applied(tag, files, <<"Create">>, "CreateFailed")

\* Updater.Apply on an Updater whose CurrentTagName is tag, on a machine
\* with these files: the new tag, the files, the operations and the error
ApplyTo(tag, files, os, release, o) ==
  LET downloadURL == DownloadURL(release.Assets, AssetName(os))
      created == [files EXCEPT !.new = Empty]
      \* http.Get of the empty URL is an error
      got == o.get /\ downloadURL # ""
      copied == [created EXCEPT !.new = IF o.copy THEN Binary(downloadURL)
                                        ELSE Partial]
      renamed ==
        IF os = "windows"
        THEN Rename(Rename(copied, "exec", "old", o.renameOld),
                    "new", "exec", o.renameNew)
        ELSE Rename(copied, "new", "exec", o.renameNew)
      renames == IF os = "windows"
                 THEN <<"Rename", "Rename">> ELSE <<"Rename", "Chmod">>
  IN  IF release.TagName = tag
      THEN Applied(tag, files, <<>>, AlreadyUpToDate)
      ELSE IF ~o.create
      THEN Applied(tag, files, <<"Create">>, "CreateFailed")
      ELSE IF ~got
      THEN Applied(tag, created, <<"Create", "Get">>, "DownloadFailed")
      ELSE IF ~o.copy
      THEN Applied(tag, copied, <<"Create", "Get", "Copy">>, "CopyFailed")
      ELSE Applied(release.TagName, renamed,
                   <<"Create", "Get", "Copy">> \o renames, "nil")

\* the record of a call of Apply: the release, and the tag and the files
\* it found
Call(release, again) ==
  [applied |-> TRUE, release |-> release, tag |-> uTag, files |-> uFiles,
   again |-> again]

\* Apply is called on the Updater at hand
Apply(release, o) ==
  LET r == ApplyTo(uTag, uFiles, goos, release, o)
  IN  /\ uRet # "none"
      /\ uTag' = r.tag /\ uFiles' = r.files /\ uOps' = r.ops
      /\ uRet' = r.ret
      /\ uLast' = Call(release,
                       uRet = "nil" /\ uLast.applied
                         /\ uLast.release = release)
      /\ UNCHANGED <<platformVars, osVars, schedVars, startVars, endVars,
                     histVars, waitVars, resolveVars, cardinalVars,
                     weatherVars, versionVars>>

\* cmdUpdate, run from the installed launcher: NewUpdater(VERSION),
\* GetLatestRelease, whose error ends the run, and Apply
cmdUpdate(fetched, release, o) ==
  LET r == ApplyTo(VERSION, uFiles, goos, release, o)
  IN  /\ uFiles.exec = Binary(VERSION)
      /\ IF fetched
         THEN /\ uTag' = r.tag /\ uFiles' = r.files /\ uOps' = r.ops
              /\ uRet' = r.ret
              /\ uLast' = [Call(release, FALSE) EXCEPT !.tag = VERSION]
         ELSE /\ uTag' = VERSION /\ uOps' = <<>>
              /\ uRet' = "FetchFailed"
              /\ uLast' = [NoApply EXCEPT !.files = uFiles]
              /\ UNCHANGED uFiles
      /\ UNCHANGED <<platformVars, osVars, schedVars, startVars, endVars,
                     histVars, waitVars, resolveVars, cardinalVars,
                     weatherVars, versionVars>>

\* the installed launcher on either system
InitUpdate ==
  /\ InitPlatform /\ endpoints = <<OldOther>>
  /\ InitLocal /\ handoff = NoFile
  /\ InitResolver /\ rLocal = ZoneUTC /\ InitTools

NextUpdate ==
  \/ \E fetched \in BOOLEAN, release \in Releases, o \in ApplyOutcomes :
       cmdUpdate(fetched, release, o)
  \/ \E release \in Releases, o \in ApplyOutcomes : Apply(release, o)

SpecUpdate == InitUpdate /\ [][NextUpdate]_vars

TypeOK ==
  /\ bstate \in [BroadcastIds -> States]
  /\ spc \in {"idle", "init", "create", "list", "insert", "bind", "save",
              "regStart", "regEnd", "done"}
  /\ gpc \in {"idle", "init", "testing", "live", "done"}
  /\ epc \in {"idle", "init", "complete", "done"}
  /\ wpc \in {"idle", "select", "golive", "returned", "fatal"}
  /\ handoff.exists \in BOOLEAN
  /\ goos \in GOOS
  /\ now \in 0..MaxTime

(* ------------------------------ properties ----------------------------- *)
\* GoLive has returned (the start flow did not stop at the identifier)
GoLiveReturned == gpc = "done" /\ gResult \in {"nil", "GoLiveFailed"}

\* C1: whenever the testing call of GoLive returned an error and the live
\* call then succeeded, GoLive returns nil: no error reaches the caller.
C1_TestingErrorNotSurfaced ==
  (GoLiveReturned /\ gTestErr /\ ~gLiveErr) => gResult = "nil"

C1_Witness ==
  GoLiveReturned /\ gTestErr /\ ~gLiveErr /\ gPre = "Bound"
  /\ bstate[gId] = "Live"

\* C2: whenever the live call of GoLive fails, GoLive returns GoLiveFailed,
\* whether the testing call before it succeeded or failed.
C2_LiveFailureSurfaced ==
  (GoLiveReturned /\ gLiveErr) => gResult = "GoLiveFailed"

C2_Witness ==
  GoLiveReturned /\ gLiveErr /\ ~gTestErr /\ gResult = "GoLiveFailed"

\* the broadcast was already Live when GoLive was called
CalledOnLive == GoLiveReturned /\ gPre = "Live"

\* C3 (as stated): GoLive called on a broadcast that is already Live returns
\* no error.
C3_Original == CalledOnLive => gResult = "nil"

\* C3 (amended): GoLive called on a broadcast that is already Live never
\* surfaces the failure of its testing call; it returns no error exactly
\* when its live call succeeds, and GoLiveFailed when the live call fails.
C3_LiveCallDecides ==
  CalledOnLive => /\ gTestErr
                  /\ (gResult = "nil" <=> ~gLiveErr)
                  /\ (gResult = "GoLiveFailed" <=> gLiveErr)

C3_Witness ==
  CalledOnLive /\ gTestErr /\ ~gLiveErr /\ gResult = "nil"
  /\ bstate[gId] = "Live"

\* the calls ScheduleStream can issue, in order, with and without the insert
CallOrderInsert ==
  <<"broadcasts.insert", "streams.list", "streams.insert", "broadcasts.bind">>
CallOrderReuse == <<"broadcasts.insert", "streams.list", "broadcasts.bind">>

CallNames == [i \in 1..Len(sCalls) |-> sCalls[i][1]]
IsPrefix(p, q) == Len(p) <= Len(q) /\ \A i \in 1..Len(p) : p[i] = q[i]
EndpointIds == {endpoints[i].id : i \in 1..Len(endpoints)}

\* C4: when the bind call fails ScheduleStream returns an error and nothing
\* else: the bind is the last call of the invocation and was issued once,
\* no creation call was issued twice, and the broadcast created by the
\* invocation is still there in state Created, unbound, as is the endpoint.
C4_BindFailureAbandons ==
  (spc = "done" /\ sErr = "BindFailed") =>
    /\ sRet = NilResult /\ sExit = 1
    /\ CallNames \in {CallOrderInsert, CallOrderReuse}
    /\ sBroadcast \in BroadcastIds
    /\ bstate[sBroadcast] = "Created"
    /\ bound[sBroadcast] = NoId
    /\ sStream.id \in EndpointIds

C4_Witness ==
  /\ spc = "done" /\ sErr = "BindFailed"
  /\ CallNames = CallOrderInsert
  /\ bstate[sBroadcast] = "Created"

\* C5: ScheduleStream issues create-broadcast, list-endpoints,
\* (create-endpoint), bind in this order, each at most once; only the last
\* call issued can have failed, and a failed call ends the invocation with
\* the error of that step and no result.
ErrorOfCall(name) ==
  CASE name = "broadcasts.insert" -> "BroadcastCreateFailed"
    [] name = "streams.list" -> "StreamLookupFailed"
    [] name = "streams.insert" -> "StreamCreateFailed"
    [] name = "broadcasts.bind" -> "BindFailed"

C5_CallOrder ==
  /\ \/ IsPrefix(CallNames, CallOrderInsert)
     \/ IsPrefix(CallNames, CallOrderReuse)
  /\ \A i \in 1..Len(sCalls) : ~sCalls[i][2] => i = Len(sCalls)
  /\ \A i \in 1..Len(sCalls) :
       ~sCalls[i][2] => /\ spc = "done"
                        /\ sErr = ErrorOfCall(sCalls[i][1])
                        /\ sRet = NilResult
  /\ sErr \notin {"none", "nil"} =>
       /\ sCalls # <<>>
       /\ ~sCalls[Len(sCalls)][2]
  /\ sErr = "nil" => /\ CallNames \in {CallOrderInsert, CallOrderReuse}
                     /\ \A i \in 1..Len(sCalls) : sCalls[i][2]

C5_Witness ==
  /\ spc = "done" /\ sErr = "StreamCreateFailed"
  /\ CallNames = <<"broadcasts.insert", "streams.list", "streams.insert">>

\* the endpoints that carry the fixed well-known title
FixedEndpoints ==
  {i \in 1..Len(endpoints) : endpoints[i].title = youtubeStreamTitle}

\* C6: the platform holds at most one endpoint with the fixed title, after
\* any sequence of ScheduleStream invocations, successful or failed.
C6_OneFixedEndpoint == Cardinality(FixedEndpoints) <= 1

\* an endpoint made by the first invocation is reused by the second
C6_Witness ==
  /\ MaxBroadcasts >= 2
  /\ bound[1] \in 1..2
  /\ bound[2] = bound[1]
  /\ Cardinality(FixedEndpoints) = 1

\* a broadcast that exists and has not ended
Active(b) == bstate[b] \in {"Created", "Bound", "Testing", "Live"}

\* C7: an ingest endpoint is bound to at most one active broadcast.
C7_OneActivePerEndpoint ==
  \A e \in EndpointIds :
    Cardinality({b \in BroadcastIds : Active(b) /\ bound[b] = e}) <= 1

\* C8: no step moves a broadcast to an earlier lifecycle state; a broadcast
\* moves one state forward at a time, or from Bound straight to Live.
C8_ForwardOnly ==
  [][\A b \in BroadcastIds :
       \/ bstate'[b] = bstate[b]
       \/ Rank(bstate'[b]) = Rank(bstate[b]) + 1
       \/ bstate[b] = "Bound" /\ bstate'[b] = "Live"]_vars

C8_Witness ==
  /\ bstate[1] = "Ended"
  /\ MaxBroadcasts >= 2 /\ bstate[2] = "Live"

\* the registered end time of a broadcast is later than its start time
EndTimeAfterStartTime ==
  \A i, j \in 1..Len(crontab) :
    (/\ crontab[i].task = StartTaskName
     /\ crontab[j].task = EndTaskName
     /\ crontab[i].id = crontab[j].id) => crontab[j].time > crontab[i].time

\* C9: the end task issues the transition to Ended for a broadcast only
\* after the start task has issued the transition to Live for it, the
\* registered end time being later than the registered start time.
C9_EndAfterStart ==
  /\ []EndTimeAfterStartTime
  /\ [][(epc = "complete" /\ epc' = "done" /\ eOrigin = "task")
          => eId \in taskLive]_vars

\* C10: a ScheduleStream call that went through creation, lookup without a
\* match, endpoint creation and bind returns a broadcast with a non-empty
\* identifier and an endpoint with a non-empty stream key, the broadcast
\* being bound to that endpoint.
C10_ScenarioC ==
  (sErr = "nil" /\ CallNames = CallOrderInsert) =>
    /\ sRet.broadcast # NoId
    /\ sRet.stream.id # NoId
    /\ sRet.stream.key # <<>>
    /\ sRet.stream.id \in EndpointIds
    /\ bound[sRet.broadcast] = sRet.stream.id
    /\ Rank(bstate[sRet.broadcast]) >= Rank("Bound")

C10_Witness ==
  /\ sErr = "nil" /\ CallNames = CallOrderInsert /\ spc = "save"
  /\ bstate[sRet.broadcast] = "Bound"

\* the identifiers the handoff file holds: its characters that are no blanks
HandoffIds ==
  {handoff.data[i] : i \in 1..Len(handoff.data)} \ {Space, Newline}

\* a schedule run has got as far as the platform
SomeScheduleRan == \E b \in BroadcastIds : bstate[b] # "Unscheduled"

\* C11 (as stated): after any sequence of schedule invocations the handoff
\* file holds exactly one identifier, the one of the most recent invocation
\* whose ScheduleStream and file write succeeded.
C11_Original ==
  (spc = "idle" /\ SomeScheduleRan) =>
    /\ Cardinality(HandoffIds) = 1
    /\ lastSaved # NoId => HandoffIds = {lastSaved}

\* C11 (amended): the handoff file is single-slot: it never holds more than
\* one identifier; once a write has succeeded it holds the identifier of the
\* most recent invocation whose ScheduleStream and write succeeded, and
\* nothing else, or it is empty, a later write having failed after the
\* truncation; a later successful write replaces the earlier identifier.
C11_SingleSlot ==
  /\ Cardinality(HandoffIds) <= 1
  /\ lastSaved # NoId => handoff \in {File(Bytes(lastSaved)), File(<<>>)}

\* the second invocation has replaced what the file held
C11_Witness ==
  /\ MaxBroadcasts >= 2
  /\ spc = "idle" /\ lastSaved = 2 /\ handoff = File(<<2>>)

\* the positions of cmdStreamSchedule, in the order of its steps
SchedOrder ==
  <<"idle", "init", "create", "list", "insert", "bind", "save", "regStart",
    "regEnd", "done">>
SchedRank(pc) == CHOOSE i \in 1..Len(SchedOrder) : SchedOrder[i] = pc

\* the entries the registry holds for a task name and an identifier
TasksOf(taskName, id) ==
  {i \in 1..Len(crontab) : crontab[i].task = taskName /\ crontab[i].id = id}

\* C12: the schedule flow takes its steps in the order resolve the times,
\* ScheduleStream, write the handoff file, register the start task, register
\* the end task; the file is written and a task registered only after
\* ScheduleStream has returned a broadcast without error, the start task
\* before the end task.
C12_ScheduleOrder ==
  [][/\ spc' # spc =>
          \/ spc' = "done"
          \/ spc = "done" /\ spc' = "idle"
          \/ SchedRank(spc') > SchedRank(spc)
     /\ sCalls' # sCalls =>
          \/ spc \in {"create", "list", "insert", "bind"}
          \/ spc = "done" /\ sCalls' = <<>>
     /\ handoff' # handoff =>
          /\ spc = "save" /\ spc' = "regStart"
          /\ sErr = "nil" /\ sRet.broadcast \in BroadcastIds
          /\ TasksOf(StartTaskName, sRet.broadcast) = {}
          /\ TasksOf(EndTaskName, sRet.broadcast) = {}
     /\ crontab' # crontab =>
          /\ sErr = "nil" /\ sRet.broadcast \in BroadcastIds
          /\ \/ /\ spc = "regStart"
                /\ TasksOf(EndTaskName, sRet.broadcast) = {}
             \/ /\ spc = "regEnd"
                /\ TasksOf(StartTaskName, sRet.broadcast) # {}]_vars

\* a run that took every step: the identifier is in the file, the two tasks
\* carry it
C12_Witness ==
  /\ spc = "done" /\ sExit = 0 /\ sErr = "nil"
  /\ handoff = File(Bytes(sRet.broadcast))
  /\ TasksOf(StartTaskName, sRet.broadcast) # {}
  /\ TasksOf(EndTaskName, sRet.broadcast) # {}

\* the entries the registry holds for a task name
TasksNamed(taskName) ==
  {i \in 1..Len(crontab) : crontab[i].task = taskName}

\* C13: the registration is an upsert: after any sequence of schedule
\* invocations the registry holds at most one task named StartYouTubeStream
\* and at most one named EndYouTubeStream.
C13_OneTaskPerName ==
  /\ Cardinality(TasksNamed(StartTaskName)) <= 1
  /\ Cardinality(TasksNamed(EndTaskName)) <= 1

\* the second invocation has replaced the start task of the first, whose end
\* task is still there
C13_Witness ==
  /\ MaxBroadcasts >= 2
  /\ Len(crontab) = 2
  /\ crontab[1].task = EndTaskName /\ crontab[1].id = 1
  /\ crontab[2].task = StartTaskName /\ crontab[2].id = 2

\* C14: the schedule flow waits for nothing and issues no transition: while
\* it runs no GoLive, EndStream or wait is started and no broadcast moves
\* past Bound, its platform calls are those of ScheduleStream, and the step
\* after the registration of the end task is its exit.
C14_ScheduleOnlySchedules ==
  [][spc # "idle" =>
       /\ UNCHANGED <<startVars, endVars, waitVars>>
       /\ \A b \in BroadcastIds :
            bstate'[b] # bstate[b] => bstate'[b] \in {"Created", "Bound"}
       /\ \A i \in 1..Len(sCalls') :
            sCalls'[i][1] \in {"broadcasts.insert", "streams.list",
                               "streams.insert", "broadcasts.bind"}
       /\ spc = "regEnd" => spc' = "done"
       /\ spc = "done" => spc' = "idle"]_vars

\* the run is over, both tasks registered, its broadcast still Bound
C14_Witness ==
  /\ spc = "done" /\ sExit = 0 /\ sErr = "nil"
  /\ TasksOf(StartTaskName, sRet.broadcast) # {}
  /\ TasksOf(EndTaskName, sRet.broadcast) # {}
  /\ bstate[sRet.broadcast] = "Bound"
  /\ gpc = "idle" /\ epc = "idle" /\ wpc = "idle"

\* a start flow is running or has just ended (cmdStreamStart, not a wait)
StartFlow == gpc # "idle" /\ gOrigin # "wait"

\* the start flow has got as far as the call of GoLive
GoLiveInvoked ==
  \/ gpc \in {"testing", "live"}
  \/ gpc = "done" /\ gResult \in {"nil", "GoLiveFailed"}

\* C15: in the start flow the start of OBS decides nothing: with OBS
\* started, failed or skipped the flow goes on with the identifier it
\* resolved to the client and to GoLive, every transition call carrying that
\* identifier; only a failure of the client or of GoLive ends the run with 1.
C15_LaunchDecidesNothing ==
  (StartFlow /\ gObs \in {"skipped", "failed", "started"}) =>
    /\ gId # NoId
    /\ \/ gpc = "init"
       \/ gpc = "done" /\ gResult = "InitFailed" /\ gCalls = <<>>
       \/ GoLiveInvoked
    /\ \A i \in 1..Len(gCalls) : gCalls[i][2] = gId
    /\ gExit = 1 <=> (gpc = "done" /\ gResult \in {"InitFailed", "GoLiveFailed"})

\* OBS did not start, and the broadcast went live with exit code 0
C15_Witness ==
  /\ StartFlow /\ gObs = "failed" /\ gpc = "done"
  /\ gResult = "nil" /\ gExit = 0
  /\ Len(gCalls) = 2 /\ bstate[gId] = "Live"

\* an end flow is running or has just ended
EndFlow == epc # "idle"

\* C16: in the start and end flows an identifier given with -id is the one
\* worked on and the file is not read; without it the file is read and the
\* identifier worked on is the one the file holds between its blanks; the
\* transition calls are issued for that identifier and no other.
C16_ExplicitIdFirst ==
  /\ StartFlow =>
       /\ gFlag # NoId => gRead = "none" /\ gId = gFlag
       /\ gFlag = NoId => gRead # "none"
       /\ (gFlag = NoId /\ gId # NoId) =>
            gRead = "ok" /\ handoff.exists /\ HandoffIds = {gId}
       /\ \A i \in 1..Len(gCalls) : gCalls[i][2] = gId
  /\ EndFlow =>
       /\ eFlag # NoId => eRead = "none" /\ eId = eFlag
       /\ eFlag = NoId => eRead # "none"
       /\ (eFlag = NoId /\ eId # NoId) =>
            eRead = "ok" /\ handoff.exists /\ HandoffIds = {eId}
       /\ \A i \in 1..Len(eCalls) : eCalls[i][2] = eId

\* without -id the start flow took identifier 1 out of " 1\n" and went live
C16_Witness ==
  /\ StartFlow /\ gFlag = NoId /\ gRead = "ok"
  /\ handoff = File(<<Space, 1, Newline>>)
  /\ gId = 1 /\ gpc = "done" /\ gResult = "nil" /\ bstate[1] = "Live"

\* C17: a start or end flow without -id that finds the file missing,
\* unreadable or blank ends there with exit code 1: OBS is not started,
\* nothing is waited for, and no transition call is issued.
C17_NoIdentifierEndsRun ==
  /\ (StartFlow /\ gFlag = NoId /\ ~handoff.exists) => gRead = "error"
  /\ (StartFlow /\ gFlag = NoId /\ (gRead = "error" \/ HandoffIds = {})) =>
       /\ gpc = "done" /\ gResult = "HandoffReadFailed" /\ gExit = 1
       /\ gObs = "none" /\ ~gPaused
       /\ gCalls = <<>>
  /\ (EndFlow /\ eFlag = NoId /\ ~handoff.exists) => eRead = "error"
  /\ (EndFlow /\ eFlag = NoId /\ (eRead = "error" \/ HandoffIds = {})) =>
       /\ epc = "done" /\ eResult = "HandoffReadFailed" /\ eExit = 1
       /\ eCalls = <<>>

\* the file holds a line end and nothing else: the start flow has ended
C17_Witness ==
  /\ StartFlow /\ gFlag = NoId /\ gRead = "ok"
  /\ handoff = File(<<Newline>>)
  /\ gpc = "done" /\ gResult = "HandoffReadFailed" /\ gExit = 1

\* EndStream has returned
EndStreamReturned == epc = "done" /\ eResult \in {"nil", "EndStreamFailed"}

\* C18: an end flow that reaches EndStream issues one transition call, to
\* complete, for the identifier it resolved; it exits with 1 and
\* EndStreamFailed exactly when that call fails, and when the call succeeds
\* the broadcast is Ended; a flow that ends before EndStream issues none.
C18_EndFlow ==
  /\ Len(eCalls) <= 1
  /\ EndStreamReturned =>
       /\ Len(eCalls) = 1
       /\ eCalls[1][1] = "complete" /\ eCalls[1][2] = eId
       /\ eResult = "EndStreamFailed" <=> ~eCalls[1][3]
       /\ eExit = 1 <=> ~eCalls[1][3]
       /\ eCalls[1][3] => eId \in BroadcastIds /\ bstate[eId] = "Ended"
  /\ (epc = "done" /\ ~EndStreamReturned) => eCalls = <<>> /\ eExit = 1

\* the identifier came from the file and its broadcast went from Live to
\* Ended
C18_Witness ==
  /\ EndStreamReturned /\ eResult = "nil" /\ eExit = 0
  /\ eFlag = NoId /\ eId \in BroadcastIds /\ bstate[eId] = "Ended"

\* WaitAndGoLive has called GoLive
WaitCalledGoLive == wpc \in {"golive", "returned", "fatal"}

\* C19: WaitAndGoLive called with a target that is not in the future
\* (duration <= 0) calls GoLive at once: no time passes, no timer fires and
\* no tick is taken before the call; the past target is no error, the wait
\* returns when GoLive does and ends fatally only when GoLive failed.
C19_PastTargetGoesLiveAtOnce ==
  (wpc # "idle" /\ wDuration <= 0) =>
    /\ WaitCalledGoLive
    /\ wCalls = 1 /\ wVia = "immediate" /\ wCalledAt = 0
    /\ wElapsed = 0 /\ ~wDone /\ ~wTick /\ wReported = <<>>
    /\ gId = wId
    /\ wpc = "returned" => gResult = "nil"
    /\ wpc = "fatal" => gResult = "GoLiveFailed"

\* the target is now: the broadcast is Live and the wait has returned
C19_Witness ==
  /\ wpc = "returned" /\ wDuration = 0 /\ wVia = "immediate"
  /\ wCalls = 1 /\ bstate[wId] = "Live"

\* C20: WaitAndGoLive called with a target in the future calls GoLive once
\* and no more, whatever the order in which the deadline and the ticks are
\* taken: never while the deadline has not elapsed, always from the case of
\* the timer and never from the case of the ticker, and it returns or ends
\* fatally only after that one call.
C20_FutureTargetOnce ==
  (wpc # "idle" /\ wDuration > 0) =>
    /\ wCalls <= 1
    /\ wCalls = 1 <=> WaitCalledGoLive
    /\ wCalls = 1 => wVia = "deadline" /\ wCalledAt >= wDuration /\ gId = wId
    /\ wpc = "select" => gpc = "idle" /\ gCalls = <<>>
    /\ \A i \in 1..Len(wReported) : wReported[i] > 0

\* the deadline and a tick fell together: the tick was taken first, found no
\* time left and did nothing, then the timer's case went live
C20_Witness ==
  /\ wpc = "returned" /\ wDuration = TickPeriod /\ wElapsed = TickPeriod
  /\ ~wTick /\ wVia = "deadline" /\ wCalls = 1 /\ wCalledAt = wDuration
  /\ bstate[wId] = "Live"

\* GoLive has come back to WaitAndGoLive with an error
WaitGoLiveFailed ==
  wpc = "golive" /\ gpc = "done" /\ gOrigin = "wait" /\ gResult # "nil"

\* C21: the attached wait never retries. When the GoLive called by
\* WaitAndGoLive fails, from the past-target branch or from the deadline
\* branch, the next thing the process does is end fatally: GoLive was called
\* once, it issued its two transition calls for the awaited broadcast, and
\* from the failure on no transition call is issued and no state of the
\* platform changes until the process is gone.
C21_NoRetry ==
  /\ [](wpc = "fatal" =>
         /\ gResult = "GoLiveFailed"
         /\ wCalls = 1
         /\ wVia \in {"immediate", "deadline"}
         /\ Len(gCalls) = 2
         /\ \A i \in 1..Len(gCalls) : gCalls[i][2] = wId)
  /\ [][/\ WaitGoLiveFailed =>
            /\ wpc' = "fatal"
            /\ UNCHANGED <<platformVars, gCalls, wCalls>>
        /\ wpc = "fatal" =>
            /\ wpc' = "idle"
            /\ UNCHANGED platformVars]_vars

\* the deadline passed, GoLive was called for a broadcast the platform would
\* not take live, and the process ended fatally after that one attempt
C21_Witness ==
  /\ wpc = "fatal" /\ wVia = "deadline" /\ wDuration > 0
  /\ wCalls = 1 /\ gResult = "GoLiveFailed" /\ bstate[wId] # "Live"

\* the fixed format of an explicit time, a letter for a digit
FixedFormat ==
  <<"Y", "Y", "Y", "Y", "-", "M", "M", "-", "D", "D", "T", "H", "H", ":",
    "M", "M", ":", "S", "S">>

\* the string has the shape of the fixed format
InFixedFormat(s) ==
  /\ Len(s) = Len(FixedFormat)
  /\ \A i \in 1..Len(FixedFormat) :
       IF FixedFormat[i] \in {"Y", "M", "D", "H", "S"} THEN isDigit(s, i)
       ELSE s[i] = FixedFormat[i]

\* a schedule run is under way or over, its flags are in rArgs
ScheduleRun == spc # "idle"

\* the run has touched nothing outside the process: no call to the
\* platform, no broadcast, no file, no task
NothingDone ==
  /\ sCalls = <<>>
  /\ bstate[MaxBroadcasts] = "Unscheduled"
  /\ handoff = NoFile /\ lastSaved = NoId
  /\ crontab = <<>>

\* C22: a schedule run whose --time is neither SUNRISE or SUNSET in some
\* letter case nor a string of the shape YYYY-MM-DDTHH:MM:SS ends with
\* InvalidTimeFormat before any call goes out: no location or sun-times
\* lookup, no call to the platform, nothing written and nothing registered.
C22_MalformedTimeEndsRun ==
  (/\ ScheduleRun
   /\ FlagOf(rArgs.time) = "EXPLICIT"
   /\ ~InFixedFormat(rArgs.time)) =>
    /\ spc = "done" /\ sExit = 1
    /\ rErr = "InvalidTimeFormat"
    /\ rCalls = <<>>
    /\ NothingDone

\* the lookups of the run that did not end well
FailedLookups == {i \in 1..Len(rCalls) : rCalls[i][2] # "ok"}

\* the lookup of the location that --city selects
LocationCall ==
  IF rArgs.city THEN "getLocationFromCity" ELSE "getLocationFromIP"

\* C23: when the location lookup or the sun-times lookup of a schedule run
\* fails or answers without success, the resolution fails and the run ends
\* there, also when --time is a valid explicit time: no call to the
\* platform, no broadcast, no file, no task. The lookup that failed is the
\* last one made: after a failed location lookup the sun times are not
\* asked for.
C23_LookupFailureEndsRun ==
  (ScheduleRun /\ FailedLookups # {}) =>
    /\ spc = "done" /\ sExit = 1
    /\ NothingDone
    /\ FailedLookups = {Len(rCalls)}
    /\ rCalls[1][1] = LocationCall
    /\ rErr = IF Len(rCalls) = 1 THEN "LocationUnresolved"
              ELSE "SunDataUnavailable"
    /\ Len(rCalls) = 2 => rCalls[2][1] = "getSunTimes"

\* the city of a run with a valid explicit time was not found: the run is
\* over after that one lookup and has made nothing
C23_Witness ==
  /\ spc = "done" /\ rArgs.time = Str_Evening /\ rArgs.city
  /\ rCalls = << <<"getLocationFromCity", "nonSuccess">> >>
  /\ rErr = "LocationUnresolved" /\ sExit = 1 /\ NothingDone

\* the time resolution of the schedule run succeeded
Resolved == ScheduleRun /\ rErr = "none"

\* the event a symbolic --time or a subcommand is anchored to
Anchor(flag, sun) == IF flag = "SUNRISE" THEN sun.Sunrise ELSE sun.Sunset

\* C24: offset arithmetic is additive. For every offset k and every time t
\* of the event, the start time resolved from SUNRISE or SUNSET with offset
\* k, and the time the sunrise and sunset subcommands resolve with offset
\* k, is the time resolved with offset 0 plus k minutes.
C24_OffsetAdditive ==
  /\ (Resolved /\ FlagOf(rArgs.time) # "EXPLICIT") =>
       sStart = ResolveStart(FlagOf(rArgs.time), 0, Minutes(0), rSun)
                + rArgs.startOffset * SecondsPerMinute
  /\ (rOut.cmd # "none" /\ rOut.exit = 0) =>
       rOut.time = Anchor(IF rOut.cmd = "sunrise" THEN "SUNRISE"
                          ELSE "SUNSET", rOut.sun) + Minutes(0)
                   + rOut.offset * SecondsPerMinute

\* C25: in the schedule flow the end time is sunset plus the end offset in
\* minutes whatever --time and the start offset are, and the start offset
\* is never added to an explicit start time: that one is the time parsed,
\* whatever the start offset.
C25_EndAtSunset ==
  Resolved =>
    /\ sEnd = rSun.Sunset + rArgs.endOffset * SecondsPerMinute
    /\ FlagOf(rArgs.time) = "EXPLICIT" =>
         sStart = ParseInLocation(rArgs.time, rLocal).time

\* the number that the digits of s from position i to position j write
RECURSIVE NumberAt(_, _, _)
NumberAt(s, i, j) ==
  IF j < i THEN 0 ELSE 10 * NumberAt(s, i, j - 1) + DigitVal(s[j])

\* the fields a string of the fixed format names
InputFields(s) ==
  [year |-> NumberAt(s, 1, 4), month |-> NumberAt(s, 6, 7),
   day |-> NumberAt(s, 9, 10), hour |-> NumberAt(s, 12, 13),
   min |-> NumberAt(s, 15, 16), sec |-> NumberAt(s, 18, 19)]

\* a string of the fixed format that names a date and a time of day
ValidExplicit(s) ==
  /\ InFixedFormat(s)
  /\ LET f == InputFields(s)
     IN /\ f.month \in 1..12
        /\ f.day \in 1..daysIn(f.month, f.year)
        /\ f.hour \in 0..23 /\ f.min \in 0..59 /\ f.sec \in 0..59

\* some instant has this wall clock in the zone: the clock is not one that
\* the change of the zone's offset skips
ExistsIn(f, zone) ==
  LET w == Wall(f.year, f.month, f.day, f.hour, f.min, f.sec)
  IN \/ lookup(zone, w - zone.before).offset = zone.before
     \/ lookup(zone, w - zone.after).offset = zone.after

\* the start task the run has registered carries the start time
StartTaskAt(t) ==
  /\ TasksOf(StartTaskName, sRet.broadcast) # {}
  /\ \A i \in TasksOf(StartTaskName, sRet.broadcast) : crontab[i].time = t

\* C26 as stated: for every valid explicit time of the fixed format the run
\* resolves a start time whose year, month, day, hour, minute and second in
\* the local zone are those of the input, and that time is the one
\* ScheduleStream and the registration of the start task are given.
C26_Original ==
  (ScheduleRun /\ ValidExplicit(rArgs.time)) =>
    /\ rErr # "InvalidTimeFormat"
    /\ Resolved => LocalFields(sStart, rLocal) = InputFields(rArgs.time)
    /\ (Resolved /\ spc = "regEnd") => StartTaskAt(sStart)

\* C26, amended: the same for every valid explicit time of the fixed format
\* that names a wall clock which exists in the local zone, that is, one
\* that no daylight-saving change skips.
C26_ExplicitFields ==
  (/\ ScheduleRun /\ ValidExplicit(rArgs.time)
   /\ ExistsIn(InputFields(rArgs.time), rLocal)) =>
    /\ rErr # "InvalidTimeFormat"
    /\ Resolved => LocalFields(sStart, rLocal) = InputFields(rArgs.time)
    /\ (Resolved /\ spc = "regEnd") => StartTaskAt(sStart)

\* scenario A on a machine in the Pacific zone, with a start offset that an
\* explicit time ignores: the start task is registered for 25 January 2026,
\* 20:00:00 local
C26_Witness ==
  /\ spc = "regEnd" /\ rArgs.time = Str_Evening /\ rLocal = ZonePacific
  /\ rArgs.startOffset = 0 - 30
  /\ LocalFields(sStart, rLocal) =
       [year |-> 2026, month |-> 1, day |-> 25, hour |-> 20, min |-> 0,
        sec |-> 0]
  /\ StartTaskAt(sStart)

\* C27: a schedule run tries each registration once at most, the start
\* task first. A registration that fails is the last thing the run does: it
\* ends with a non-zero exit code; when it was that of the start task, the
\* end task is not tried and the registry holds no end task for the
\* broadcast of the run.
C27_RegistrationFailureEndsRun ==
  /\ Len(sRegs) <= 2
  /\ \A i \in 1..Len(sRegs) :
       /\ sRegs[i][1] = IF i = 1 THEN StartTaskName ELSE EndTaskName
       /\ ~sRegs[i][2] => i = Len(sRegs) /\ spc = "done" /\ sExit # 0
  /\ (sRegs # <<>> /\ ~sRegs[1][2]) =>
       TasksOf(EndTaskName, sRet.broadcast) = {}

\* the second run of the day could not register its start task: it is over
\* with exit code 1 and the end task of the first run is still the one in
\* the registry
C27_Witness ==
  /\ spc = "done" /\ sExit = 1 /\ sRet.broadcast = 2
  /\ sRegs = << <<StartTaskName, FALSE>> >>
  /\ TasksOf(EndTaskName, 1) # {}
  /\ TasksOf(EndTaskName, 2) = {}

\* C28: GoLive asks the platform nothing about the broadcast. An execution
\* issues two calls and no more: the transition to testing, then the
\* transition to live for the same identifier, whether the first call
\* failed or not; it returns after the second.
C28_TwoCalls ==
  /\ [](/\ gpc = "testing" => gCalls = <<>>
        /\ gpc = "live" => gCalls = << <<"testing", gId, ~gTestErr>> >>
        /\ GoLiveReturned =>
             gCalls = << <<"testing", gId, ~gTestErr>>,
                         <<"live", gId, ~gLiveErr>> >>)
  /\ [][/\ gpc = "testing" => gpc' = "live"
        /\ gpc = "live" => gpc' = "done" /\ Len(gCalls') = 2]_vars

\* the testing call failed, the live call was issued all the same and took
\* the broadcast live
C28_Witness ==
  /\ GoLiveReturned /\ gResult = "nil"
  /\ gCalls = << <<"testing", gId, FALSE>>, <<"live", gId, TRUE>> >>
  /\ gId \in BroadcastIds /\ bstate[gId] = "Live"

\* GoLive has made its testing call and is about to make, or has made, its
\* live call
PastTesting == gpc = "live" \/ GoLiveReturned

\* C29 as stated: every execution of GoLive pauses for the fixed time
\* between the testing call and the live call.
C29_Original == PastTesting => gSlept = GoLivePause

\* C29, amended: an execution of GoLive pauses for the fixed time between
\* the two calls when its testing call succeeded; when that call failed the
\* live call is issued with no pause.
C29_PauseAfterTesting ==
  PastTesting => gSlept = IF gTestErr THEN 0 ELSE GoLivePause

\* the testing call took the broadcast to Testing, GoLive slept and then
\* took it live
C29_Witness ==
  /\ GoLiveReturned /\ gResult = "nil" /\ ~gTestErr
  /\ gSlept = GoLivePause /\ gPre = "Bound"
  /\ gId \in BroadcastIds /\ bstate[gId] = "Live"

\* the broadcasts the platform holds
Existing == {b \in BroadcastIds : bstate[b] # "Unscheduled"}

\* the insert calls of the schedule run
InsertCalls == {i \in 1..Len(sCalls) : sCalls[i][1] = "broadcasts.insert"}

\* no step takes a broadcast away; a step that adds one is the insert of a
\* schedule run and adds one; the call of EndStream leaves the set, the
\* bindings, the endpoints and every other broadcast as they are
GrowOnly ==
  /\ Existing \subseteq Existing'
  /\ Existing' # Existing =>
       /\ spc = "create" /\ spc' = "list"
       /\ Existing' = Existing \cup {sBroadcast'}
  /\ (epc = "complete" /\ epc' = "done") =>
       /\ Existing' = Existing
       /\ bound' = bound /\ endpoints' = endpoints
       /\ \A b \in BroadcastIds \ {eId} : bstate'[b] = bstate[b]

\* C30 as stated: every schedule run that reaches ScheduleStream makes one
\* new broadcast, also when run again with the same flags, and no step of
\* any flow takes a broadcast away: the set of broadcasts only grows and
\* ending a broadcast changes its state alone.
C30_Original ==
  /\ [](sCalls # <<>> => Cardinality(InsertCalls) = 1)
  /\ [][/\ GrowOnly
        /\ (spc = "create" /\ spc' # "create") =>
             /\ sBroadcast' \notin Existing
             /\ Existing' = Existing \cup {sBroadcast'}]_vars

\* C30, amended: every schedule run that reaches ScheduleStream issues one
\* insert of a broadcast and, when the platform takes it, makes one new
\* broadcast, also when run again with the same flags; when the insert
\* fails the run makes none. No step of any flow takes a broadcast away:
\* the set of broadcasts only grows and ending a broadcast changes its state
\* alone.
C30_OneBroadcastPerRun ==
  /\ [](sCalls # <<>> => Cardinality(InsertCalls) = 1)
  /\ [][/\ GrowOnly
        /\ (spc = "create" /\ spc' = "list") =>
             /\ sBroadcast' \notin Existing
             /\ Existing' = Existing \cup {sBroadcast'}
        /\ (spc = "create" /\ spc' = "done") =>
             /\ Existing' = Existing
             /\ sBroadcast' = NoId]_vars

\* the first broadcast was taken live and ended, and is still there, bound
\* as it was; a second run with the same flags has made a second broadcast
C30_Witness ==
  /\ MaxBroadcasts >= 2
  /\ bstate[1] = "Ended" /\ bound[1] # NoId
  /\ spc = "list" /\ sBroadcast = 2 /\ Existing = {1, 2}
  /\ sCalls = << <<"broadcasts.insert", TRUE>> >>

(* ---------------------- C31: degrees to direction ---------------------- *)
\* whole degrees handed to degrees_to_cardinal, and their remainder mod 360
WholeDegrees == cDeg.type = "number" /\ cOut # "none"
Reduced == LuaNumber(cDeg.n % 360)
\* the sixteen compass points
CompassPoints == {directions[i] : i \in 1..Len(directions)}

\* C31: for every whole number of degrees degrees_to_cardinal returns one of
\* the sixteen compass points, and the same one as for the degrees reduced
\* modulo 360; 0 and 360 give N; N is given for exactly the whole degrees
\* from 348.75 to 11.25, that is 349 to 359 and 0 to 11; 225 gives SW.
C31_CardinalModulo ==
  WholeDegrees =>
    /\ cOut \in CompassPoints
    /\ Cardinality(CompassPoints) = 16
    /\ cOut = degrees_to_cardinal(Reduced)
    /\ cDeg.n \in {0, 360} => cOut = "N"
    /\ cOut = "N" <=> (4 * Reduced.n >= 1395 \/ 4 * Reduced.n <= 45)
    /\ cDeg.n = 225 => cOut = "SW"

\* a negative number of degrees beyond a full turn has been converted to N
C31_Witness ==
  WholeDegrees /\ cDeg.n = 0 - 371 /\ cOut = "N"

(* ------------------- C32: what a finished run leaves ------------------- *)
\* a schedule invocation has completed successfully
ScheduleCompleted == spc = "done" /\ sExit = 0 /\ sErr = "nil"
\* the one entry of a task name carries the identifier
TaskCarries(taskName, id) ==
  /\ TasksOf(taskName, id) # {}
  /\ TasksNamed(taskName) = TasksOf(taskName, id)

WaitingAhead == wpc = "select" /\ wDuration > 0
\* GoLive has been invoked once, by the deadline
WentLiveOnce == wCalls = 1 /\ wVia = "deadline"

\* C33 (as stated): for every target ahead, with a fair deadline timer,
\* WaitAndGoLive eventually invokes GoLive and returns, also when ticks keep
\* becoming ready together with the deadline.
C33_Original ==
  WaitingAhead ~> (WentLiveOnce /\ wpc = "returned")

\* C33 (amended): for every target ahead, with a fair deadline timer,
\* WaitAndGoLive eventually invokes GoLive and ends, also when ticks keep
\* becoming ready together with the deadline: it returns when GoLive
\* returned no error and ends the process when GoLive returned one.
C33_WaitEnds ==
  WaitingAhead ~>
    /\ WentLiveOnce
    /\ \/ wpc = "returned" /\ gResult = "nil"
       \/ wpc = "fatal" /\ gResult = "GoLiveFailed"

\* the wait has ended by the deadline after a tick was taken with the
\* deadline ready and a later tick was left waiting
C33_Witness ==
  /\ wpc = "returned" /\ WentLiveOnce /\ wDuration = TickPeriod
  /\ wElapsed = MaxElapsed /\ wTick /\ wReported = <<>>

(* ------------------ C34: what a registration leaves -------------------- *)
\* the lines of a crontab that do not carry the tag of a task, in order
OtherLines(lines, taskName) ==
  SelectSeq(lines, LAMBDA e : e.task # taskName)
\* C34: a registration leaves every other entry of the registry as it was:
\* createUnixTask neither removes nor alters a crontab line that does not
\* carry the tag of the task it registers (registering the start task keeps
\* the end task and the other way round), and the kept lines stay in their
\* order.
C34_OthersKept ==
  [][\A taskName \in {StartTaskName, EndTaskName} :
       (crontab' # crontab /\ crontab' # <<>>
          /\ crontab'[Len(crontab')].task = taskName)
       => OtherLines(crontab', taskName) = OtherLines(crontab, taskName)]_vars

(* ----------------- C35: a handoff file that is not written ------------- *)
\* the run is past a write of the handoff file that failed
WriteFailed ==
  /\ spc \in {"regStart", "regEnd", "done"}
  /\ sErr = "nil" /\ sRet.broadcast \in BroadcastIds
  /\ lastSaved # sRet.broadcast
\* both registrations of the run have succeeded
BothRegistered ==
  sRegs = <<<<StartTaskName, TRUE>>, <<EndTaskName, TRUE>>>>
\* the step is the write of the handoff file, and the write fails
WriteFails == spc = "save" /\ spc' # "save" /\ lastSaved' # sRet.broadcast
\* after a failed write the run registers its tasks as after a good one:
\* the start task is tried next, the end task after it when the start task
\* was registered, both name the new broadcast in their command, and a run
\* both of whose registrations succeed ends with exit code 0
GoesOnToRegister ==
  /\ WriteFailed =>
        /\ spc = "regStart" => sRegs = <<>> /\ sExit = 0
        /\ spc = "regEnd" => sRegs = <<<<StartTaskName, TRUE>>>>
        /\ spc = "regEnd" => TaskCarries(StartTaskName, sRet.broadcast)
        /\ spc = "done" => Len(sRegs) \in 1..2
        /\ (spc = "done" /\ BothRegistered) =>
              /\ sExit = 0
              /\ TaskCarries(StartTaskName, sRet.broadcast)
              /\ TaskCarries(EndTaskName, sRet.broadcast)

C36_PauseIffLaunched ==
  StartFlow =>
    /\ gPaused <=> gObs = "started"
    /\ (GoLiveInvoked /\ gObs \in {"skipped", "failed"}) => ~gPaused
    /\ GoLiveInvoked => gObs \in {"skipped", "failed", "started"}
    /\ gObs = "none" => gpc = "done" /\ gResult = "HandoffReadFailed"

\* the software could not be started and GoLive has been invoked at once
C36_Witness ==
  /\ StartFlow /\ gObs = "failed" /\ ~gPaused
  /\ gpc = "live" /\ Len(gCalls) = 1

\* the software was started and GoLive has been invoked after the pause
C36_WitnessPaused ==
  /\ StartFlow /\ gObs = "started" /\ gPaused
  /\ gpc = "live" /\ Len(gCalls) = 1

(* ---------------- C37: the two versions of the controller -------------- *)
\* the calls of a schedule run without the endpoint step: the lookup and
\* the creation of the endpoint left out, the bind without its endpoint
IsEndpointCall(c) == c.call \in {"streams.list", "streams.insert"}
WithoutEndpoint(calls) ==
  LET NotEndpoint(c) == ~IsEndpointCall(c)
      kept == SelectSeq(calls, NotEndpoint)
  IN  [i \in 1..Len(kept) |->
         IF kept[i].call = "broadcasts.bind"
         THEN [call |-> kept[i].call, id |-> kept[i].id]
         ELSE kept[i]]
CallsNamed(calls, name) ==
  {i \in 1..Len(calls) : calls[i].call = name}
\* the run got past its endpoint step
EndpointStepPassed(r) ==
  r.err \notin {"StreamLookupFailed", "StreamCreateFailed"}

\* C37: Given the same identifier, duration and platform outcomes, GoLive
\* and WaitAndGoLive of README.md and of part_000 issue the same calls in
\* the same order and end the same way. ScheduleStream of the two differs
\* in the endpoint step alone: README.md never lists and always creates
\* an endpoint titled after the broadcast, part_000 lists, takes the
\* endpoint of the fixed title when one is listed and creates one of that
\* title when none is; the broadcast call is the same, and when both runs
\* get past the endpoint step they bind the same broadcast, fail or
\* succeed alike and return the same broadcast.
C37_VersionsAgree ==
  /\ vIn.method \in {"GoLive", "WaitAndGoLive"} => vOld = vNew
  /\ vIn.method = "ScheduleStream" =>
       /\ Head(vOld.calls) = Head(vNew.calls)
       /\ ~vIn.o.insert => vOld = vNew
       /\ vIn.o.insert =>
            /\ CallsNamed(vOld.calls, "streams.list") = {}
            /\ vOld.calls[2] = StreamInsertCall(README_StreamTitle(vIn.title))
            /\ vNew.calls[2] = StreamListCall
            /\ CallsNamed(vNew.calls, "streams.insert") # {}
                 <=> (vIn.o.list /\ FindStream(endpoints) = NilStream)
            /\ \A i \in CallsNamed(vNew.calls, "streams.insert") :
                 vNew.calls[i].title = youtubeStreamTitle
            /\ vOld.err = "nil" =>
                 /\ vOld.ret.stream.title = README_StreamTitle(vIn.title)
                 /\ \A i \in 1..Len(endpoints) :
                      endpoints[i].id # vOld.ret.stream.id
            /\ vNew.err = "nil" =>
                 /\ vNew.ret.stream.title = youtubeStreamTitle
                 /\ FindStream(endpoints) # NilStream =>
                      vNew.ret.stream = FindStream(endpoints)
            /\ (EndpointStepPassed(vOld) /\ EndpointStepPassed(vNew)) =>
                 /\ WithoutEndpoint(vOld.calls) = WithoutEndpoint(vNew.calls)
                 /\ vOld.err = vNew.err
                 /\ vOld.ret.broadcast = vNew.ret.broadcast

\* a wait ahead whose testing call failed and whose live call succeeded,
\* after a countdown line, in both versions
C37_Witness ==
  /\ vIn.method = "WaitAndGoLive" /\ vIn.duration > 0
  /\ ~vIn.testOk /\ vIn.liveOk
  /\ vOld.reports > 0 /\ Len(vOld.calls) = 2 /\ vOld.result = "returned"
  /\ vNew.result = "returned"

\* a schedule run in which part_000 took the listed endpoint and README.md
\* made one, both to the end
C37_WitnessReuse ==
  /\ vIn.method = "ScheduleStream"
  /\ vOld.err = "nil" /\ vNew.err = "nil"
  /\ vNew.ret.stream = OldFixed
  /\ vOld.ret.stream.id # OldFixed.id

(* ---------------------- C38: the timer of the script ------------------- *)
\* the step is a fetch made by check_update
TimerFetched == wxTimer' # wxTimer
\* the clock reading of the last fetch check_update made
LastTimerFetch == wxTimer[Len(wxTimer)]

\* C38: check_update fetches only when at least update_interval seconds
\* have passed since the fetch it made last, so that two fetches of the
\* timer that follow each other are never less than update_interval
\* seconds apart; last_update is the reading of the timer's last fetch,
\* and a fetch of the Update Now button or of a settings update leaves it
\* as it is.
C38_TimerInterval ==
  /\ [](wxTimer # <<>> => wxLast = LastTimerFetch)
  /\ [][/\ TimerFetched =>
             /\ wxClock - wxLast >= wxInterval
             /\ wxTimer # <<>> => wxClock - LastTimerFetch >= wxInterval
             /\ wxLast' = wxClock
        /\ ~TimerFetched => wxLast' = wxLast]_vars

\* two fetches of the timer exactly one interval apart, the texts set
C38_Witness ==
  /\ Len(wxTimer) = 2
  /\ wxTimer[2] - wxTimer[1] = wxInterval
  /\ wxWind # NoText

(* ------------------- C39: the window of the wind data ------------------ *)
\* the window as the claim gives it, in minutes of the day
InWindow(t) == MinuteOfDay(t) >= 390 /\ MinuteOfDay(t) <= 1050
\* the step put the result of a successful fetch into the wind source, or
\* into the date/time source
WindShown == wxWind' # wxWind /\ wxWind'.kind \in {"wind", PlaceholderText.kind}
DateShown == wxDate' # wxDate /\ wxDate'.kind = "date"

\* C39: A successful fetch shows the placeholder '-- mph, -- mph, -- ' and
\* the ' (offline)' suffix exactly when the minute of the day is below 390
\* or above 1050, and real wind data without the suffix from 06:30 to 17:30,
\* both ends included. The minute of the day is taken at the moment the
\* fetch reads the clock first or at the moment it reads it last.
C39_OfflineWindow ==
  [][/\ begin_at = 390 /\ end_at = 1050
     /\ WindShown =>
          \E t \in {wxClock, wxClock'} :
            (wxWind' = PlaceholderText) <=> ~InWindow(t)
     /\ DateShown =>
          \E t \in {wxClock, wxClock'} :
            (wxDate'.suffix = OfflineSuffix) <=> ~InWindow(t)]_vars

\* real data is shown at 06:30 and at 17:30
C39_AtTheEnds ==
  /\ wxWind.kind = "wind" /\ wxDate.kind = "date" /\ wxDate.suffix = ""
  /\ wxDate.stamp = wxClock \div SecondsPerMinute
  /\ MinuteOfDay(wxClock) \in {begin_at, end_at}

(* ----------------------------- C40: Apply ------------------------------ *)
\* C40: Apply with a release whose tag is the Updater's current tag
\* returns 'Already up to date' and creates, downloads and renames nothing:
\* no operation is made and the files and the tag are as before. When Apply
\* returns no error the current tag is the tag of the release, and Apply
\* with the same release right after that returns 'Already up to date'.
C40_ApplyIdempotent ==
  /\ (uLast.applied /\ uLast.release.TagName = uLast.tag) =>
       /\ uRet = AlreadyUpToDate
       /\ uOps = <<>> /\ uFiles = uLast.files /\ uTag = uLast.tag
  /\ uRet = AlreadyUpToDate => uLast.release.TagName = uLast.tag
  /\ uRet = "nil" => uTag = uLast.release.TagName
  /\ uLast.again =>
       /\ uRet = AlreadyUpToDate
       /\ uOps = <<>> /\ uFiles = uLast.files

\* the release that was installed a call before is applied again
C40_Witness ==
  /\ uLast.again /\ uRet = AlreadyUpToDate
  /\ uFiles.exec = Binary(Asset(goos).BrowserDownloadURL)
  /\ uTag = uLast.release.TagName /\ uTag # VERSION

============================================================================
